---------------------------- MODULE Spec2Model ----------------------------
(***************************************************************************)
(* A model of the command core of LightTranslator                          *)
(* (src/src-tauri/src/lib.rs): the shortcut store and the OS hotkey        *)
(* registry (update_shortcut, setup_global_shortcut), the proxy-aware      *)
(* request dispatcher (proxy_request, set_proxy), the screenshot capture   *)
(* (capture_screen), the OCR command (ocr_image), the dependency probe     *)
(* (check_ocr_dependencies) and the quick-translate sequence a hotkey      *)
(* press starts (trigger_quick_translate).                                 *)
(*                                                                         *)
(* Strings whose characters matter are sequences of one-character strings. *)
(***************************************************************************)
EXTENDS Integers, Sequences, FiniteSets, TLC

VARIABLES
    \* ---- shortcut store and OS hotkey subsystem ----
    started,           \* run()'s setup closure has finished
    current_shortcut,  \* AppState.current_shortcut (the string inside the Mutex)
    shortcut_lock,     \* holder of the current_shortcut Mutex (0: free)
    registered,        \* hotkeys this process has registered with the OS
    os_taken,          \* hotkeys the OS refuses (grabbed by another application)
    us_pc,             \* position of each update_shortcut invocation
    us_arg,            \* its `shortcut` argument
    us_ret,            \* its return value
    us_pre,            \* history: the store, and whether the registry agreed with it, at the call
    triggers,          \* number of trigger_quick_translate calls started
    \* ---- proxy-aware request dispatcher ----
    proxy_settings,    \* AppState.proxy_settings (the Option inside the Mutex)
    proxy_lock,        \* holder of the proxy_settings Mutex (Free when free)
    net,               \* what the network answers over each kind of transport
    pr_pc,             \* position of each proxy_request invocation
    pr_method,         \* options.method of the invocation
    pr_seen,           \* the settings the invocation read under the lock
    pr_client,         \* the client it built
    pr_verb,           \* the verb of the request it sent
    pr_ret,            \* its return value
    sp_pc,             \* position of the set_proxy invocation
    sp_arg,            \* its `settings` argument
    \* ---- capture_screen ----
    cs_pc,             \* position of the capture_screen invocation
    cs_exit_ok,        \* output.status.success() of the screenshot tool
    png_exists,        \* the scratch file temp_path is on disk
    tmp_exists,        \* the NamedTempFile is on disk
    cs_removed,        \* the invocation has called remove_file(&temp_path)
    cs_ret,            \* its return value
    leftover,          \* scratch files that earlier invocations left on disk
    captures,          \* invocations so far
    \* ---- ocr_image ----
    ocr_in,            \* the base64_image argument
    ocr_env,           \* what the file system and the OCR engine do
    ocr_out,           \* the return value, with the bytes given to the engine
    \* ---- check_ocr_dependencies ----
    dep_env,           \* what each of the three probes does
    dep_out,           \* the return value
    \* ---- the cursor position of trigger_quick_translate ----
    cur_out,           \* stdout of `xdotool getmouselocation`
    cur_pos,           \* the (x, y) resolved from it
    \* ---- the hotkey handler and trigger_quick_translate ----
    hk_pressed,        \* Pressed events the handler has been called with
    hk_released,       \* Released events the handler has been called with
    quick_window,      \* get_webview_window("quick") finds the transient surface
    tq_pc,             \* position of each trigger_quick_translate call
    tq_key,            \* the hotkey whose event started it
    tq_read,           \* what its clipboard read returned
    tq_located,        \* how its cursor-location command ended
    tq_log,            \* the external effects of the call and of its threads, in order
    act_pc,            \* position of its window-activation thread
    emit_pc,           \* position of its text-delivery thread
    surface,           \* the transient surface: position, visibility, focus requests
    emitted            \* quick-translate-text events sent to the surface, in order

shortcutVars == <<started, current_shortcut, shortcut_lock, registered, os_taken,
                  us_pc, us_arg, us_ret, us_pre, triggers>>

proxyVars == <<proxy_settings, proxy_lock, net, pr_pc, pr_method, pr_seen,
               pr_client, pr_verb, pr_ret, sp_pc, sp_arg>>

captureVars == <<cs_pc, cs_exit_ok, png_exists, tmp_exists, cs_removed, cs_ret,
                 leftover, captures>>

ocrVars == <<ocr_in, ocr_env, ocr_out>>

depVars == <<dep_env, dep_out>>

cursorVars == <<cur_out, cur_pos>>

triggerVars == <<hk_pressed, hk_released, quick_window, tq_pc, tq_key, tq_read, tq_located,
                 tq_log, act_pc, emit_pc, surface, emitted>>

vars == <<shortcutVars, proxyVars, captureVars, ocrVars, depVars, cursorVars, triggerVars>>

\* Each component's actions leave the other components alone.
exceptShortcut == <<proxyVars, captureVars, ocrVars, depVars, cursorVars, triggerVars>>
exceptProxy == <<shortcutVars, captureVars, ocrVars, depVars, cursorVars, triggerVars>>
exceptCapture == <<shortcutVars, proxyVars, ocrVars, depVars, cursorVars, triggerVars>>
exceptOcr == <<shortcutVars, proxyVars, captureVars, depVars, cursorVars, triggerVars>>
exceptDeps == <<shortcutVars, proxyVars, captureVars, ocrVars, cursorVars, triggerVars>>
exceptCursor == <<shortcutVars, proxyVars, captureVars, ocrVars, depVars, triggerVars>>
exceptTrigger == <<proxyVars, captureVars, ocrVars, depVars, cursorVars>>

(***************************************************************************)
(* Bounds                                                                  *)
(***************************************************************************)
NumUpdaters == 2      \* concurrent update_shortcut invocations
MaxTriggers == 2      \* hotkey presses followed
NumRequests == 1      \* concurrent proxy_request invocations
MaxCaptures == 3      \* capture_screen invocations followed
MaxInput == 6         \* length of ocr_image's argument
MaxStdout == 6        \* length of the OCR engine's output
MaxMethodLen == 6     \* length of the method strings tried
MaxProbeOut == 3      \* length of a dependency probe's output
MaxTokens == 3        \* tokens in the generated cursor-location outputs

Updaters == 1..NumUpdaters

Triggers == 1..MaxTriggers

(***************************************************************************)
(* Shortcut strings and the hotkeys they parse to                          *)
(***************************************************************************)
DefaultShortcut == "CommandOrControl+Shift+X"

ParseError == "ParseError"

\* The binding strings a caller may pass: two that parse and one that does not.
ShortcutStrings == {DefaultShortcut, "Alt+T", "Ctrl+NoSuchKey"}

\* str::parse::<Shortcut>(): the hotkey a string denotes, or a parse error.
ParseShortcut(s) ==
    CASE s = "CommandOrControl+Shift+X" -> "CONTROL+SHIFT+KeyX"
      [] s = "Alt+T"                    -> "ALT+KeyT"
      [] OTHER                          -> ParseError

Hotkeys == {ParseShortcut(s) : s \in ShortcutStrings} \ {ParseError}

\* global_shortcut().on_shortcut(k, handler): the OS accepts a hotkey that no
\* other application holds and that this process has not registered already.
CanRegister(k, reg, taken) == k \notin taken /\ k \notin reg

\* global_shortcut().unregister(k); the caller discards the result.
UnregisterKey(k, reg) == reg \ {k}

\* Whether the OS registry holds exactly the binding stored in `cur`.
Consistent(cur, reg) == reg = {ParseShortcut(cur)}

NoPre == [stored |-> "", consistent |-> FALSE]

(***************************************************************************)
(* Initial state: AppState::default(), nothing registered yet (os_taken is *)
(* the environment's, chosen by each specification).                       *)
(***************************************************************************)
InitShortcut ==
    /\ started = FALSE
    /\ current_shortcut = DefaultShortcut
    /\ shortcut_lock = 0
    /\ registered = {}
    /\ us_pc = [p \in Updaters |-> "idle"]
    /\ us_arg = [p \in Updaters |-> ""]
    /\ us_ret = [p \in Updaters |-> "none"]
    /\ us_pre = [p \in Updaters |-> NoPre]
    /\ triggers = 0

(***************************************************************************)
(* setup_global_shortcut, called once from run()'s setup closure; an error *)
(* is logged and startup goes on.                                          *)
(***************************************************************************)
SetupGlobalShortcut ==
    /\ ~started
    /\ shortcut_lock = 0
    /\ LET k == ParseShortcut(current_shortcut) IN
         registered' = IF k # ParseError /\ CanRegister(k, registered, os_taken)
                         THEN registered \cup {k}
                         ELSE registered
    /\ started' = TRUE
    /\ UNCHANGED <<current_shortcut, shortcut_lock, os_taken,
                   us_pc, us_arg, us_ret, us_pre, triggers>>
    /\ UNCHANGED exceptShortcut

(***************************************************************************)
(* update_shortcut(app, shortcut, state)                                   *)
(***************************************************************************)
\* The UI invokes the command.
UsCall(p, s) ==
    /\ started
    /\ us_pc[p] = "idle"
    /\ us_pc' = [us_pc EXCEPT ![p] = "lock_old"]
    /\ us_arg' = [us_arg EXCEPT ![p] = s]
    /\ us_ret' = us_ret
    /\ us_pre' = [us_pre EXCEPT ![p] = [stored |-> current_shortcut,
                                        consistent |-> Consistent(current_shortcut, registered)]]
    /\ UNCHANGED <<started, current_shortcut, shortcut_lock, registered,
                   os_taken, triggers>>
    /\ UNCHANGED exceptShortcut

\* state.current_shortcut.lock().unwrap()
UsLockOld(p) ==
    /\ us_pc[p] = "lock_old"
    /\ shortcut_lock = 0
    /\ shortcut_lock' = p
    /\ us_pc' = [us_pc EXCEPT ![p] = "unregister"]
    /\ UNCHANGED <<started, current_shortcut, registered, os_taken,
                   us_arg, us_ret, us_pre, triggers>>
    /\ UNCHANGED exceptShortcut

\* if let Ok(old_sc) = old_shortcut.parse() { let _ = unregister(old_sc); }
UsUnregisterOld(p) ==
    /\ us_pc[p] = "unregister"
    /\ shortcut_lock = p
    /\ LET old_sc == ParseShortcut(current_shortcut) IN
         registered' = IF old_sc # ParseError
                         THEN UnregisterKey(old_sc, registered)
                         ELSE registered
    /\ us_pc' = [us_pc EXCEPT ![p] = "unlock_old"]
    /\ UNCHANGED <<started, current_shortcut, shortcut_lock, os_taken,
                   us_arg, us_ret, us_pre, triggers>>
    /\ UNCHANGED exceptShortcut

\* The end of the block as it would be did the guard live on to the end of
\* the function: the lock stays with the invocation.
UsUnlockOldKeepsGuard(p) ==
    /\ us_pc[p] = "unlock_old"
    /\ shortcut_lock = p
    /\ shortcut_lock' = shortcut_lock
    /\ us_pc' = [us_pc EXCEPT ![p] = "parse_new"]
    /\ UNCHANGED <<started, current_shortcut, registered, os_taken,
                   us_arg, us_ret, us_pre, triggers>>
    /\ UNCHANGED exceptShortcut

\* the guard goes out of scope at the end of the block
UsUnlockOld(p) ==
    /\ us_pc[p] = "unlock_old"
    /\ shortcut_lock = p
    /\ shortcut_lock' = 0
    /\ us_pc' = [us_pc EXCEPT ![p] = "parse_new"]
    /\ UNCHANGED <<started, current_shortcut, registered, os_taken,
                   us_arg, us_ret, us_pre, triggers>>
    /\ UNCHANGED exceptShortcut

\* let new_shortcut: Shortcut = shortcut.parse().map_err(..)?;
UsParseNew(p) ==
    /\ us_pc[p] = "parse_new"
    /\ IF ParseShortcut(us_arg[p]) = ParseError
         THEN /\ us_pc' = [us_pc EXCEPT ![p] = "done"]
              /\ us_ret' = [us_ret EXCEPT ![p] = "Err(parse)"]
         ELSE /\ us_pc' = [us_pc EXCEPT ![p] = "register"]
              /\ us_ret' = us_ret
    /\ UNCHANGED <<started, current_shortcut, shortcut_lock, registered,
                   os_taken, us_arg, us_pre, triggers>>
    /\ UNCHANGED exceptShortcut

\* The registration as it would be if the new binding were stored before the
\* OS has answered.
UsRegisterNewStoresFirst(p) ==
    /\ us_pc[p] = "register"
    /\ current_shortcut' = us_arg[p]
    /\ LET k == ParseShortcut(us_arg[p]) IN
         IF CanRegister(k, registered, os_taken)
           THEN /\ registered' = registered \cup {k}
                /\ us_pc' = [us_pc EXCEPT ![p] = "lock_new"]
                /\ us_ret' = us_ret
           ELSE /\ registered' = registered
                /\ us_pc' = [us_pc EXCEPT ![p] = "done"]
                /\ us_ret' = [us_ret EXCEPT ![p] = "Err(register)"]
    /\ UNCHANGED <<started, shortcut_lock, os_taken, us_arg, us_pre, triggers>>
    /\ UNCHANGED exceptShortcut

\* app.global_shortcut().on_shortcut(new_shortcut, handler).map_err(..)?;
UsRegisterNew(p) ==
    /\ us_pc[p] = "register"
    /\ LET k == ParseShortcut(us_arg[p]) IN
         IF CanRegister(k, registered, os_taken)
           THEN /\ registered' = registered \cup {k}
                /\ us_pc' = [us_pc EXCEPT ![p] = "lock_new"]
                /\ us_ret' = us_ret
           ELSE /\ registered' = registered
                /\ us_pc' = [us_pc EXCEPT ![p] = "done"]
                /\ us_ret' = [us_ret EXCEPT ![p] = "Err(register)"]
    /\ UNCHANGED <<started, current_shortcut, shortcut_lock, os_taken,
                   us_arg, us_pre, triggers>>
    /\ UNCHANGED exceptShortcut

\* let mut current = state.current_shortcut.lock().unwrap();
UsLockNew(p) ==
    /\ us_pc[p] = "lock_new"
    /\ shortcut_lock = 0
    /\ shortcut_lock' = p
    /\ us_pc' = [us_pc EXCEPT ![p] = "commit"]
    /\ UNCHANGED <<started, current_shortcut, registered, os_taken,
                   us_arg, us_ret, us_pre, triggers>>
    /\ UNCHANGED exceptShortcut

\* *current = shortcut; the guard is dropped; Ok(true)
UsCommit(p) ==
    /\ us_pc[p] = "commit"
    /\ shortcut_lock = p
    /\ current_shortcut' = us_arg[p]
    /\ shortcut_lock' = 0
    /\ us_pc' = [us_pc EXCEPT ![p] = "done"]
    /\ us_ret' = [us_ret EXCEPT ![p] = "Ok(true)"]
    /\ UNCHANGED <<started, registered, os_taken, us_arg, us_pre, triggers>>
    /\ UNCHANGED exceptShortcut

\* The result has been delivered to the caller; the invocation is over.
UsReturn(p) ==
    /\ us_pc[p] = "done"
    /\ us_pc' = [us_pc EXCEPT ![p] = "idle"]
    /\ us_arg' = [us_arg EXCEPT ![p] = ""]
    /\ us_ret' = [us_ret EXCEPT ![p] = "none"]
    /\ us_pre' = [us_pre EXCEPT ![p] = NoPre]
    /\ UNCHANGED <<started, current_shortcut, shortcut_lock, registered,
                   os_taken, triggers>>
    /\ UNCHANGED exceptShortcut

(***************************************************************************)
(* The handler both registrations install (lines 331-335 and 541-545): a   *)
(* Pressed event of a registered hotkey calls trigger_quick_translate, any *)
(* other event does nothing. The hotkey subsystem calls the handler on its *)
(* one event thread, so an event is handled when the call before it has    *)
(* returned.                                                               *)
(***************************************************************************)
\* A handler that starts the sequence on every event.
HandlerStartsAlways(st) == TRUE

\* if event.state == ShortcutState::Pressed
HandlerStarts(st) == st = "Pressed"

HotkeyEvent(k, st) ==
    /\ k \in registered
    /\ \A t \in Triggers : tq_pc[t] \in {"idle", "done"}
    /\ st = "Pressed" => hk_pressed < MaxTriggers
    /\ st = "Released" => hk_released < MaxTriggers
    /\ HandlerStarts(st) => triggers < MaxTriggers
    /\ hk_pressed' = IF st = "Pressed" THEN hk_pressed + 1 ELSE hk_pressed
    /\ hk_released' = IF st = "Released" THEN hk_released + 1 ELSE hk_released
    /\ IF HandlerStarts(st)
         THEN /\ triggers' = triggers + 1
              /\ tq_pc' = [tq_pc EXCEPT ![triggers + 1] = "copy"]
              /\ tq_key' = [tq_key EXCEPT ![triggers + 1] = k]
         ELSE UNCHANGED <<triggers, tq_pc, tq_key>>
    /\ UNCHANGED <<started, current_shortcut, shortcut_lock, registered,
                   os_taken, us_pc, us_arg, us_ret, us_pre>>
    /\ UNCHANGED <<quick_window, tq_read, tq_located, tq_log, act_pc, emit_pc,
                   surface, emitted>>
    /\ UNCHANGED exceptTrigger

(***************************************************************************)
(* Strings as character sequences; Option<T> as a sequence of length 0     *)
(* (None) or 1 (Some).                                                     *)
(***************************************************************************)
None == <<>>
Some(x) == <<x>>

\* The ASCII letters the model's strings use, upper case with lower case.
CasePairs ==
    { <<"A", "a">>, <<"C", "c">>, <<"D", "d">>, <<"E", "e">>, <<"G", "g">>,
      <<"H", "h">>, <<"L", "l">>, <<"O", "o">>, <<"P", "p">>, <<"S", "s">>,
      <<"T", "t">>, <<"U", "u">> }

IsUpperLetter(c) == \E pr \in CasePairs : pr[1] = c
IsLowerLetter(c) == \E pr \in CasePairs : pr[2] = c
LowerLetter(c) == (CHOOSE pr \in CasePairs : pr[1] = c)[2]
UpperLetter(c) == (CHOOSE pr \in CasePairs : pr[2] = c)[1]

\* char::to_uppercase is Unicode's: besides a..z, the long s (U+017F, "LONG_S")
\* maps to S and the ligature st (U+FB06, "ST_LIG") maps to the two letters ST.
UpperChar(c) ==
    IF IsLowerLetter(c) THEN <<UpperLetter(c)>>
    ELSE IF c = "LONG_S" THEN <<"S">>
    ELSE IF c = "ST_LIG" THEN <<"S", "T">>
    ELSE <<c>>

RECURSIVE to_uppercase(_)
to_uppercase(s) ==
    IF s = <<>> THEN <<>> ELSE UpperChar(Head(s)) \o to_uppercase(Tail(s))

(***************************************************************************)
(* proxy_request: the verb                                                 *)
(***************************************************************************)
GET_ == <<"G", "E", "T">>
POST_ == <<"P", "O", "S", "T">>
PUT_ == <<"P", "U", "T">>
DELETE_ == <<"D", "E", "L", "E", "T", "E">>
PATCH_ == <<"P", "A", "T", "C", "H">>

\* The selection as it would be without the to_uppercase() of line 116.
SelectVerbCaseSensitive(method) ==
    LET m == IF method = None THEN GET_ ELSE method[1] IN
      CASE m = POST_   -> "POST"
        [] m = PUT_    -> "PUT"
        [] m = DELETE_ -> "DELETE"
        [] m = PATCH_  -> "PATCH"
        [] OTHER       -> "GET"

\* let method = opts.method.unwrap_or_else(|| "GET".to_string());
\* match method.to_uppercase().as_str() { "POST" => .., _ => client.get(&url) }
SelectVerb(method) ==
    LET m == IF method = None THEN GET_ ELSE method[1]
        u == to_uppercase(m)
    IN  CASE u = POST_   -> "POST"
          [] u = PUT_    -> "PUT"
          [] u = DELETE_ -> "DELETE"
          [] u = PATCH_  -> "PATCH"
          [] OTHER       -> "GET"

(***************************************************************************)
(* proxy_request: the transport                                            *)
(***************************************************************************)
Requests == 1..NumRequests

\* Option<ProxySettings>; username and password are never read by the code.
NoProxy == [set |-> FALSE, enabled |-> FALSE, protocol |-> "", host |-> "", port |-> 0]

ProxyConfigs ==
    [set : {TRUE}, enabled : BOOLEAN, protocol : {"http", "ftp"},
     host : {"proxy.test"}, port : {8080}]

\* format!("{}://{}:{}", settings.protocol, settings.host, settings.port)
ProxyUrl(settings) ==
    <<settings.protocol, "://", settings.host, ":", settings.port>>

\* reqwest::Proxy::all(&proxy_url): an error for a URL whose scheme is no proxy
\* scheme or whose host is empty.
ProxyAllOk(proxy_url) ==
    /\ proxy_url[1] \in {"http", "https", "socks5"}
    /\ proxy_url[3] # ""

DirectClient == [kind |-> "direct", proxy |-> <<>>]

NoClient == [kind |-> "none", proxy |-> <<>>]

\* The client block as it would be without the test of settings.enabled.
BuildClientIgnoringEnabled(settings) ==
    IF settings.set
      THEN IF ProxyAllOk(ProxyUrl(settings))
             THEN [tag |-> "Ok", client |-> [kind |-> "proxy", proxy |-> ProxyUrl(settings)]]
             ELSE [tag |-> "Err", client |-> NoClient]
      ELSE [tag |-> "Ok", client |-> DirectClient]

\* The block that builds `client` (lines 87-106): Ok(client), or the Err that the
\* `?` returns from proxy_request.
BuildClient(settings) ==
    IF settings.set
      THEN IF settings.enabled
             THEN IF ProxyAllOk(ProxyUrl(settings))
                    THEN [tag |-> "Ok",
                          client |-> [kind |-> "proxy", proxy |-> ProxyUrl(settings)]]
                    ELSE [tag |-> "Err", client |-> NoClient]
             ELSE [tag |-> "Ok", client |-> DirectClient]
      ELSE [tag |-> "Ok", client |-> DirectClient]

(***************************************************************************)
(* proxy_request: the result                                               *)
(***************************************************************************)
\* What request.send().await and response.text().await give: a transport
\* failure, or a status with a body that can (Some) or cannot (None) be read.
Statuses == {200, 299, 300, 404}

TransportFailure == [sent |-> FALSE, status |-> 0, body |-> None]

Outcomes ==
    {TransportFailure}
      \cup [sent : {TRUE}, status : Statuses, body : {Some("ok")}]
      \cup {[sent |-> TRUE, status |-> 200, body |-> None]}

TransportKinds == {"direct", "proxy"}

\* A success test with no upper end.
is_success_unbounded(status) == status >= 200

\* StatusCode::is_success(): 200..=299
is_success(status) == 200 <= status /\ status <= 299

\* The match on request.send().await (lines 134-159); Result<ProxyResponse, String>
\* with tag "Ok" or "Err".
NoRet == [tag |-> "none", ok |-> FALSE, status_code |-> None, data |-> None, error |-> None]

ErrRet == [tag |-> "Err", ok |-> FALSE, status_code |-> None, data |-> None, error |-> None]

ResponseOf(outcome) ==
    IF outcome.sent
      THEN [tag |-> "Ok",
            ok |-> is_success(outcome.status),
            status_code |-> Some(outcome.status),
            data |-> Some(IF outcome.body = None THEN "" ELSE outcome.body[1]),
            error |-> None]
      ELSE [tag |-> "Ok", ok |-> FALSE, status_code |-> None, data |-> None,
            error |-> Some("error sending request")]

\* The methods the dispatcher's invocations are given.
SmallMethods == {None, Some(<<"p", "o", "s", "t">>), Some(<<"h", "e", "a", "d">>)}

\* The methods the verb selection is tried on: every upper/lower-case spelling
\* of the words below, and spellings with letters outside ASCII.
MethodWords ==
    { w \in { GET_, POST_, PUT_, DELETE_, PATCH_, <<>>, <<"G", "E">>,
              <<"H", "E", "A", "D">>, <<"P", "O", "S", "T", "S">>,
              <<"P", "U", "T", "1">>, <<" ", "G", "E", "T">>,
              <<"D", "E", "L", "E", "T", "E", "S">> } : Len(w) <= MaxMethodLen }

LowerAt(w, mask) ==
    [i \in 1..Len(w) |->
        IF i \in mask /\ IsUpperLetter(w[i]) THEN LowerLetter(w[i]) ELSE w[i]]

CaseVariants(w) == { LowerAt(w, mask) : mask \in SUBSET (1..Len(w)) }

MethodStrings ==
    UNION { CaseVariants(w) : w \in MethodWords }
      \cup { <<"p", "o", "LONG_S", "t">>, <<"P", "O", "ST_LIG">>,
             <<"LONG_S">>, <<"p", "u", "ST_LIG">> }

MethodInputs == {None} \cup { Some(m) : m \in MethodStrings }

\* The proxy_settings Mutex with no holder.
Free == <<"nobody", 0>>

InitProxyIdle ==
    /\ proxy_settings = NoProxy
    /\ proxy_lock = Free
    /\ pr_pc = [r \in Requests |-> "idle"]
    /\ pr_method = [r \in Requests |-> None]
    /\ pr_seen = [r \in Requests |-> NoProxy]
    /\ pr_client = [r \in Requests |-> NoClient]
    /\ pr_verb = [r \in Requests |-> "none"]
    /\ pr_ret = [r \in Requests |-> NoRet]
    /\ sp_pc = "idle"
    /\ sp_arg = NoProxy

\* The UI invokes proxy_request(url, options).
PrCall(r, method) ==
    /\ pr_pc[r] = "idle"
    /\ pr_pc' = [pr_pc EXCEPT ![r] = "lock"]
    /\ pr_method' = [pr_method EXCEPT ![r] = method]
    /\ UNCHANGED <<proxy_settings, proxy_lock, net, pr_seen, pr_client, pr_verb,
                   pr_ret, sp_pc, sp_arg>>
    /\ UNCHANGED exceptProxy

\* let proxy_settings = state.proxy_settings.lock().unwrap();
PrLock(r) ==
    /\ pr_pc[r] = "lock"
    /\ proxy_lock = Free
    /\ proxy_lock' = <<"proxy_request", r>>
    /\ pr_pc' = [pr_pc EXCEPT ![r] = "build"]
    /\ UNCHANGED <<proxy_settings, net, pr_method, pr_seen, pr_client, pr_verb,
                   pr_ret, sp_pc, sp_arg>>
    /\ UNCHANGED exceptProxy

\* The block as it would be did the guard outlive it: the lock stays with
\* the invocation while the request is sent.
PrBuildKeepsLock(r) ==
    /\ pr_pc[r] = "build"
    /\ proxy_lock = <<"proxy_request", r>>
    /\ pr_seen' = [pr_seen EXCEPT ![r] = proxy_settings]
    /\ LET built == BuildClient(proxy_settings) IN
         IF built.tag = "Ok"
           THEN /\ pr_client' = [pr_client EXCEPT ![r] = built.client]
                /\ pr_pc' = [pr_pc EXCEPT ![r] = "send"]
                /\ pr_ret' = pr_ret
           ELSE /\ pr_client' = pr_client
                /\ pr_pc' = [pr_pc EXCEPT ![r] = "done"]
                /\ pr_ret' = [pr_ret EXCEPT ![r] = ErrRet]
    /\ UNCHANGED <<proxy_settings, proxy_lock, net, pr_method, pr_verb, sp_pc, sp_arg>>
    /\ UNCHANGED exceptProxy

\* The rest of the block: the client is built from the settings read under the
\* lock, and the guard is dropped at the block's end or by the `?`.
PrBuild(r) ==
    /\ pr_pc[r] = "build"
    /\ proxy_lock = <<"proxy_request", r>>
    /\ pr_seen' = [pr_seen EXCEPT ![r] = proxy_settings]
    /\ LET built == BuildClient(proxy_settings) IN
         IF built.tag = "Ok"
           THEN /\ pr_client' = [pr_client EXCEPT ![r] = built.client]
                /\ pr_pc' = [pr_pc EXCEPT ![r] = "send"]
                /\ pr_ret' = pr_ret
           ELSE /\ pr_client' = pr_client
                /\ pr_pc' = [pr_pc EXCEPT ![r] = "done"]
                /\ pr_ret' = [pr_ret EXCEPT ![r] = ErrRet]
    /\ proxy_lock' = Free
    /\ UNCHANGED <<proxy_settings, net, pr_method, pr_verb, sp_pc, sp_arg>>
    /\ UNCHANGED exceptProxy

\* Lines 108-134: the verb is chosen, headers and body are attached, and the
\* request is sent; the task is suspended until the answer arrives.
PrSend(r) ==
    /\ pr_pc[r] = "send"
    /\ pr_verb' = [pr_verb EXCEPT ![r] = SelectVerb(pr_method[r])]
    /\ pr_pc' = [pr_pc EXCEPT ![r] = "await"]
    /\ UNCHANGED <<proxy_settings, proxy_lock, net, pr_method, pr_seen, pr_client,
                   pr_ret, sp_pc, sp_arg>>
    /\ UNCHANGED exceptProxy

\* Lines 134-159: the answer of the network over the client's transport.
PrComplete(r) ==
    /\ pr_pc[r] = "await"
    /\ pr_ret' = [pr_ret EXCEPT ![r] = ResponseOf(net[pr_client[r].kind])]
    /\ pr_pc' = [pr_pc EXCEPT ![r] = "done"]
    /\ UNCHANGED <<proxy_settings, proxy_lock, net, pr_method, pr_seen, pr_client,
                   pr_verb, sp_pc, sp_arg>>
    /\ UNCHANGED exceptProxy

\* The result has been delivered to the caller; the invocation is over.
PrReturn(r) ==
    /\ pr_pc[r] = "done"
    /\ pr_pc' = [pr_pc EXCEPT ![r] = "idle"]
    /\ pr_method' = [pr_method EXCEPT ![r] = None]
    /\ pr_seen' = [pr_seen EXCEPT ![r] = NoProxy]
    /\ pr_client' = [pr_client EXCEPT ![r] = NoClient]
    /\ pr_verb' = [pr_verb EXCEPT ![r] = "none"]
    /\ pr_ret' = [pr_ret EXCEPT ![r] = NoRet]
    /\ UNCHANGED <<proxy_settings, proxy_lock, net, sp_pc, sp_arg>>
    /\ UNCHANGED exceptProxy

(***************************************************************************)
(* set_proxy(settings, state)                                              *)
(***************************************************************************)
SpCall(settings) ==
    /\ sp_pc = "idle"
    /\ sp_pc' = "lock"
    /\ sp_arg' = settings
    /\ UNCHANGED <<proxy_settings, proxy_lock, net, pr_pc, pr_method, pr_seen,
                   pr_client, pr_verb, pr_ret>>
    /\ UNCHANGED exceptProxy

\* let mut proxy = state.proxy_settings.lock().unwrap();
SpLock ==
    /\ sp_pc = "lock"
    /\ proxy_lock = Free
    /\ proxy_lock' = <<"set_proxy", 0>>
    /\ sp_pc' = "write"
    /\ UNCHANGED <<proxy_settings, net, pr_pc, pr_method, pr_seen, pr_client,
                   pr_verb, pr_ret, sp_arg>>
    /\ UNCHANGED exceptProxy

\* *proxy = Some(settings); Ok(()) and the guard is dropped
SpWrite ==
    /\ sp_pc = "write"
    /\ proxy_lock = <<"set_proxy", 0>>
    /\ proxy_settings' = sp_arg
    /\ proxy_lock' = Free
    /\ sp_pc' = "idle"
    /\ sp_arg' = NoProxy
    /\ UNCHANGED <<net, pr_pc, pr_method, pr_seen, pr_client, pr_verb, pr_ret>>
    /\ UNCHANGED exceptProxy

(***************************************************************************)
(* capture_screen()                                                        *)
(***************************************************************************)
\* The UI (or the tray's "ocr" item) invokes the command.
CsCall ==
    /\ cs_pc = "idle"
    /\ captures < MaxCaptures
    /\ captures' = captures + 1
    /\ cs_pc' = "temp_file"
    /\ cs_ret' = "none"
    /\ cs_removed' = FALSE
    /\ UNCHANGED <<cs_exit_ok, png_exists, tmp_exists, leftover>>
    /\ UNCHANGED exceptCapture

\* let temp_file = tempfile::NamedTempFile::new().map_err(..)?;
\* temp_path is the new file's path with ".png" appended: another file.
CsTempFile(created) ==
    /\ cs_pc = "temp_file"
    /\ IF created
         THEN /\ tmp_exists' = TRUE
              /\ cs_pc' = "run_tool"
              /\ cs_ret' = cs_ret
         ELSE /\ tmp_exists' = tmp_exists
              /\ cs_pc' = "done"
              /\ cs_ret' = "Err"
    /\ UNCHANGED <<cs_exit_ok, png_exists, cs_removed, leftover, captures>>
    /\ UNCHANGED exceptCapture

\* Command::new("gnome-screenshot").args(["-a", "-f", &temp_path]).output()
\* .map_err(..)?: the tool cannot be launched, or it runs, writes temp_path or
\* not, and exits with a status. temp_file is deleted when it is dropped, at
\* every return.
CsRunTool(launched, exit_ok, wrote) ==
    /\ cs_pc = "run_tool"
    /\ IF launched
         THEN /\ png_exists' = wrote
              /\ cs_exit_ok' = exit_ok
              /\ cs_pc' = "check_status"
              /\ UNCHANGED <<tmp_exists, cs_ret>>
         ELSE /\ tmp_exists' = FALSE
              /\ cs_pc' = "done"
              /\ cs_ret' = "Err"
              /\ UNCHANGED <<png_exists, cs_exit_ok>>
    /\ UNCHANGED <<cs_removed, leftover, captures>>
    /\ UNCHANGED exceptCapture

\* if !output.status.success() { return Ok(None); }
CsCheckStatus ==
    /\ cs_pc = "check_status"
    /\ IF cs_exit_ok
         THEN /\ cs_pc' = "check_exists"
              /\ UNCHANGED <<tmp_exists, cs_ret>>
         ELSE /\ tmp_exists' = FALSE
              /\ cs_pc' = "done"
              /\ cs_ret' = "Ok(None)"
    /\ UNCHANGED <<cs_exit_ok, png_exists, cs_removed, leftover, captures>>
    /\ UNCHANGED exceptCapture

\* if !Path::new(&temp_path).exists() { return Ok(None); }
CsCheckExists ==
    /\ cs_pc = "check_exists"
    /\ IF png_exists
         THEN /\ cs_pc' = "read"
              /\ UNCHANGED <<tmp_exists, cs_ret>>
         ELSE /\ tmp_exists' = FALSE
              /\ cs_pc' = "done"
              /\ cs_ret' = "Ok(None)"
    /\ UNCHANGED <<cs_exit_ok, png_exists, cs_removed, leftover, captures>>
    /\ UNCHANGED exceptCapture

\* let image_data = std::fs::read(&temp_path).map_err(|e| e.to_string())?;
CsRead(read_ok) ==
    /\ cs_pc = "read"
    /\ IF read_ok
         THEN /\ cs_pc' = "remove"
              /\ UNCHANGED <<tmp_exists, cs_ret>>
         ELSE /\ tmp_exists' = FALSE
              /\ cs_pc' = "done"
              /\ cs_ret' = "Err"
    /\ UNCHANGED <<cs_exit_ok, png_exists, cs_removed, leftover, captures>>
    /\ UNCHANGED exceptCapture

\* let _ = std::fs::remove_file(&temp_path); Ok(Some(data URL))
CsRemove(removed) ==
    /\ cs_pc = "remove"
    /\ cs_removed' = TRUE
    /\ png_exists' = IF removed THEN FALSE ELSE png_exists
    /\ tmp_exists' = FALSE
    /\ cs_pc' = "done"
    /\ cs_ret' = "Ok(Some)"
    /\ UNCHANGED <<cs_exit_ok, leftover, captures>>
    /\ UNCHANGED exceptCapture

\* The result has been delivered. A scratch file still on disk stays there:
\* the next invocation uses a fresh path.
CsReturn ==
    /\ cs_pc = "done"
    /\ cs_pc' = "idle"
    /\ leftover' = IF png_exists THEN leftover + 1 ELSE leftover
    /\ png_exists' = FALSE
    /\ cs_exit_ok' = FALSE
    /\ UNCHANGED <<tmp_exists, cs_removed, cs_ret, captures>>
    /\ UNCHANGED exceptCapture

InitCapture ==
    /\ cs_pc = "idle"
    /\ cs_exit_ok = FALSE
    /\ png_exists = FALSE
    /\ tmp_exists = FALSE
    /\ cs_removed = FALSE
    /\ cs_ret = "none"
    /\ leftover = 0
    /\ captures = 0

(***************************************************************************)
(* ocr_image(base64_image)                                                 *)
(***************************************************************************)
Contains(s, c) == \E i \in 1..Len(s) : s[i] = c

FirstIndex(s, c) == CHOOSE i \in 1..Len(s) : s[i] = c /\ \A j \in 1..(i - 1) : s[j] # c

\* str::split(','): the segments between the commas.
RECURSIVE SplitComma(_)
SplitComma(s) ==
    IF Contains(s, ",")
      THEN LET i == FirstIndex(s, ",") IN
             <<SubSeq(s, 1, i - 1)>> \o SplitComma(SubSeq(s, i + 1, Len(s)))
      ELSE <<s>>

\* The extraction as it would be with nth(0) for nth(1).
ExtractPayloadFirstSegment(s) ==
    IF Contains(s, ",") THEN SplitComma(s)[1] ELSE s

\* Lines 197-201: if base64_image.contains(",") { split(',').nth(1)
\* .unwrap_or(&base64_image) } else { &base64_image }
ExtractPayload(s) ==
    IF Contains(s, ",")
      THEN LET segs == SplitComma(s) IN
             IF Len(segs) >= 2 THEN segs[2] ELSE s
      ELSE s

\* The base64 symbols the model's strings use, with their values.
B64Table == { <<"A", 0>>, <<"Q", 16>>, <<"g", 32>>, <<"/", 63>> }

IsB64Symbol(c) == \E pr \in B64Table : pr[1] = c
B64Value(c) == (CHOOSE pr \in B64Table : pr[1] = c)[2]

\* The bytes of one group of four symbols, of which the first n are kept.
GroupBytes(a, b, c, d, n) ==
    SubSeq(<< a * 4 + b \div 16, (b % 16) * 16 + c \div 4, (c % 4) * 64 + d >>, 1, n)

RECURSIVE DecodeGroups(_)
DecodeGroups(s) ==
    IF s = <<>> THEN <<>>
    ELSE GroupBytes(B64Value(s[1]), B64Value(s[2]), B64Value(s[3]), B64Value(s[4]), 3)
           \o DecodeGroups(SubSeq(s, 5, Len(s)))

\* base64 STANDARD engine decode (line 204): canonical padding is required,
\* and the bits a padded group leaves over must be zero.
Base64Decode(p) ==
    LET n == Len(p)
        pad == IF n >= 2 /\ p[n] = "=" /\ p[n - 1] = "=" THEN 2
               ELSE IF n >= 1 /\ p[n] = "=" THEN 1
               ELSE 0
        body == SubSeq(p, 1, n - pad)
        full == SubSeq(body, 1, Len(body) - (Len(body) % 4))
        last == SubSeq(body, Len(full) + 1, Len(body))
        bad == [ok |-> FALSE, bytes |-> <<>>]
    IN  IF n % 4 # 0 \/ \E i \in 1..Len(body) : ~IsB64Symbol(body[i])
          THEN bad
        ELSE IF pad = 0
          THEN [ok |-> TRUE, bytes |-> DecodeGroups(body)]
        ELSE IF pad = 2 /\ B64Value(last[2]) % 16 = 0
          THEN [ok |-> TRUE,
                bytes |-> DecodeGroups(full)
                            \o GroupBytes(B64Value(last[1]), B64Value(last[2]), 0, 0, 1)]
        ELSE IF pad = 1 /\ B64Value(last[3]) % 4 = 0
          THEN [ok |-> TRUE,
                bytes |-> DecodeGroups(full)
                            \o GroupBytes(B64Value(last[1]), B64Value(last[2]),
                                          B64Value(last[3]), 0, 2)]
        ELSE bad

\* str::lines(): the text is cut after each "LF"; a line loses its "LF" and
\* then one "CR" before it; a last line without "LF" is kept as it is.
RECURSIVE lines(_)
lines(s) ==
    IF s = <<>> THEN <<>>
    ELSE IF Contains(s, "LF")
      THEN LET i == FirstIndex(s, "LF")
               l == SubSeq(s, 1, i - 1)
               stripped == IF l # <<>> /\ l[Len(l)] = "CR"
                             THEN SubSeq(l, 1, Len(l) - 1) ELSE l
           IN  <<stripped>> \o lines(SubSeq(s, i + 1, Len(s)))
      ELSE <<s>>

\* char::is_whitespace, for the characters the model's texts use.
IsWhitespace(c) == c \in {" ", "CR", "LF", "TAB"}

\* A filter that keeps every line.
TrimIsEmptyNever(l) == FALSE

\* line.trim().is_empty()
TrimIsEmpty(l) == \A i \in 1..Len(l) : IsWhitespace(l[i])

\* [&str]::join(" ")
RECURSIVE join(_)
join(ls) ==
    IF ls = <<>> THEN <<>>
    ELSE IF Len(ls) = 1 THEN ls[1]
    ELSE ls[1] \o <<" ">> \o join(Tail(ls))

\* Lines 224-228: text.lines().filter(|line| !line.trim().is_empty())
\* .collect::<Vec<_>>().join(" ")
CleanText(text) ==
    join(SelectSeq(lines(text), LAMBDA l : ~TrimIsEmpty(l)))

\* What the file system and the OCR engine do in one invocation: the first
\* step that fails, if any ("tmp": NamedTempFile::new, "write": fs::write,
\* "launch": tesseract cannot be started, "exit": it exits non-zero), and the
\* engine's output streams (after String::from_utf8_lossy).
OcrErr(msg, written) ==
    [tag |-> "Err", success |-> FALSE, text |-> None, error |-> Some(msg),
     image_bytes |-> written]

\* ocr_image as a function of its argument and of the environment: the
\* Result<OcrResult, String> and the bytes written to the scratch file.
OcrImage(base64_image, env) ==
    LET base64_data == ExtractPayload(base64_image)
        decoded == Base64Decode(base64_data)
    IN  IF ~decoded.ok THEN OcrErr("Failed to decode base64", None)
        ELSE IF env.fail = "tmp" THEN OcrErr("tempfile", None)
        ELSE IF env.fail = "write" THEN OcrErr("write", None)
        ELSE IF env.fail = "launch"
          THEN OcrErr("Failed to run tesseract", Some(decoded.bytes))
        ELSE IF env.fail = "none"
          THEN [tag |-> "Ok", success |-> TRUE, text |-> Some(CleanText(env.stdout)),
                error |-> None, image_bytes |-> Some(decoded.bytes)]
        ELSE [tag |-> "Ok", success |-> FALSE, text |-> None,
              error |-> Some(env.stderr), image_bytes |-> Some(decoded.bytes)]

NoOcr == [tag |-> "none", success |-> FALSE, text |-> None, error |-> None,
          image_bytes |-> None]

\* The command runs on the argument and the environment of the initial state.
OcrRun ==
    /\ ocr_out = NoOcr
    /\ ocr_out' = OcrImage(ocr_in, ocr_env)
    /\ UNCHANGED <<ocr_in, ocr_env>>
    /\ UNCHANGED exceptOcr

\* All strings over `alphabet` of length at most n.
StringsUpTo(alphabet, n) == UNION { [1..k -> alphabet] : k \in 0..n }

InputAlphabet == {"Q", "=", ",", ";"}

OutputAlphabet == {"a", " ", "LF", "CR"}

OcrFailures == {"none", "tmp", "write", "launch", "exit"}

InitOcrIdle ==
    /\ ocr_in = <<>>
    /\ ocr_env = [fail |-> "none", stdout |-> <<>>, stderr |-> <<>>]
    /\ ocr_out = NoOcr

(***************************************************************************)
(* check_ocr_dependencies()                                                *)
(***************************************************************************)
\* What Command::output() gives for one probe: the process could not be
\* launched (Err), or it ran and left an exit status and its stdout.
ProbeLaunchFailure == [launched |-> FALSE, success |-> FALSE, stdout |-> <<>>]

ProbeOk(p) == p.launched /\ p.success

\* Lines 250-257: (tesseract_installed, tesseract_version); the version is the
\* first line of the stdout, "" when there is none.
TesseractStatus(version_probe) ==
    IF ProbeOk(version_probe)
      THEN LET ls == lines(version_probe.stdout) IN
             [installed |-> TRUE,
              version |-> Some(IF ls = <<>> THEN <<>> ELSE ls[1])]
      ELSE [installed |-> FALSE, version |-> None]

\* The language list as it would be were the list query made unconditionally.
LanguagesUnconditional(tesseract_installed, langs_probe) ==
    IF ProbeOk(langs_probe)
      THEN LET ls == lines(langs_probe.stdout) IN
             IF ls = <<>> THEN <<>> ELSE Tail(ls)
      ELSE <<>>

\* Lines 260-274: the list query is made only when the engine is installed;
\* its lines after the header line, or the empty list.
Languages(tesseract_installed, langs_probe) ==
    IF tesseract_installed
      THEN IF ProbeOk(langs_probe)
             THEN LET ls == lines(langs_probe.stdout) IN
                    IF ls = <<>> THEN <<>> ELSE Tail(ls)
             ELSE <<>>
      ELSE <<>>

\* Lines 277-281: .output().map(|o| o.status.success()).unwrap_or(false)
GnomeScreenshotInstalled(which_probe) ==
    IF which_probe.launched THEN which_probe.success ELSE FALSE

\* Lines 246-289: the value returned, always Ok(OcrDependencyStatus).
CheckOcrDependencies(env) ==
    LET t == TesseractStatus(env.version) IN
      [tag |-> "Ok",
       tesseract_installed |-> t.installed,
       tesseract_version |-> t.version,
       languages |-> Languages(t.installed, env.langs),
       gnome_screenshot_installed |-> GnomeScreenshotInstalled(env.which)]

NoDeps == [tag |-> "none"]

\* The command runs to its return.
DepRun ==
    /\ dep_out = NoDeps
    /\ dep_out' = CheckOcrDependencies(dep_env)
    /\ UNCHANGED dep_env
    /\ UNCHANGED exceptDeps

ProbeAlphabet == {"v", "LF"}

\* The outcomes of one probe: no launch, or an exit status with an output.
ProbeOutcomes ==
    {ProbeLaunchFailure} \cup
    [launched : {TRUE}, success : BOOLEAN, stdout : StringsUpTo(ProbeAlphabet, MaxProbeOut)]

InitDepsIdle ==
    /\ dep_env = [version |-> ProbeLaunchFailure, langs |-> ProbeLaunchFailure,
                  which |-> ProbeLaunchFailure]
    /\ dep_out = NoDeps

(***************************************************************************)
(* trigger_quick_translate: the cursor position (lines 431-442)            *)
(***************************************************************************)
\* str::split_whitespace(): the maximal runs of non-whitespace characters.
RECURSIVE split_whitespace(_)
split_whitespace(s) ==
    IF s = <<>> THEN <<>>
    ELSE IF IsWhitespace(Head(s)) THEN split_whitespace(Tail(s))
    ELSE LET stops == { i \in 1..Len(s) : IsWhitespace(s[i]) }
             stop == IF stops = {} THEN Len(s) + 1
                     ELSE CHOOSE i \in stops : \A j \in stops : i <= j
         IN  <<SubSeq(s, 1, stop - 1)>> \o split_whitespace(SubSeq(s, stop, Len(s)))

\* str::strip_prefix(prefix): Some(rest) when the string starts with it.
strip_prefix(s, prefix) ==
    IF Len(s) >= Len(prefix) /\ SubSeq(s, 1, Len(prefix)) = prefix
      THEN Some(SubSeq(s, Len(prefix) + 1, Len(s)))
      ELSE None

DigitChars == <<"0", "1", "2", "3", "4", "5", "6", "7", "8", "9">>

IsDigit(c) == \E i \in 1..10 : DigitChars[i] = c

DigitValue(c) == (CHOOSE i \in 1..10 : DigitChars[i] = c) - 1

I32Max == 2147483647
I32Min == -I32Max - 1

\* The digit loop of i32::from_str: checked_mul by 10, then checked_add (or
\* checked_sub for a negative number); None on a non-digit or an overflow.
RECURSIVE AccumulateI32(_, _, _)
AccumulateI32(digits, acc, negative) ==
    IF digits = <<>> THEN Some(acc)
    ELSE IF ~IsDigit(Head(digits)) THEN None
    ELSE LET d == DigitValue(Head(digits)) IN
           IF negative
             THEN IF acc < (I32Min + d) \div 10 + (IF (I32Min + d) % 10 = 0 THEN 0 ELSE 1)
                    THEN None
                    ELSE AccumulateI32(Tail(digits), acc * 10 - d, negative)
             ELSE IF acc > (I32Max - d) \div 10
                    THEN None
                    ELSE AccumulateI32(Tail(digits), acc * 10 + d, negative)

\* str::parse::<i32>(): an optional sign and at least one decimal digit, in
\* the range of i32; None stands for Err.
ParseI32(s) ==
    IF s = <<>> THEN None
    ELSE IF Head(s) \in {"+", "-"}
      THEN IF Len(s) = 1 THEN None
           ELSE AccumulateI32(Tail(s), 0, Head(s) = "-")
      ELSE AccumulateI32(s, 0, FALSE)

DefaultCoordinate == 100

\* val.parse().unwrap_or(100)
ParseOrDefault(val) ==
    LET r == ParseI32(val) IN IF r = None THEN DefaultCoordinate ELSE r[1]

\* The loop of lines 436-442 over the remaining parts.
RECURSIVE ResolveParts(_, _, _)
ResolveParts(parts, x, y) ==
    IF parts = <<>> THEN <<x, y>>
    ELSE LET part == Head(parts)
             xv == strip_prefix(part, <<"x", ":">>)
             yv == strip_prefix(part, <<"y", ":">>)
         IN  IF xv # None THEN ResolveParts(Tail(parts), ParseOrDefault(xv[1]), y)
             ELSE IF yv # None THEN ResolveParts(Tail(parts), x, ParseOrDefault(yv[1]))
             ELSE ResolveParts(Tail(parts), x, y)

\* The position as it would be were x read from the first token and y from
\* the second.
ResolvePositionByPlace(location) ==
    LET parts == split_whitespace(location)
        xv == IF Len(parts) >= 1 THEN strip_prefix(parts[1], <<"x", ":">>) ELSE None
        yv == IF Len(parts) >= 2 THEN strip_prefix(parts[2], <<"y", ":">>) ELSE None
    IN  << IF xv # None THEN ParseOrDefault(xv[1]) ELSE DefaultCoordinate,
           IF yv # None THEN ParseOrDefault(yv[1]) ELSE DefaultCoordinate >>

\* Lines 431-442: x and y start at 100 and are set from the parts of the
\* output; the result is what set_position is given.
ResolvePosition(location) ==
    ResolveParts(split_whitespace(location), DefaultCoordinate, DefaultCoordinate)

NoPos == <<>>

\* The position is resolved from the command's output.
CurResolve ==
    /\ cur_pos = NoPos
    /\ cur_pos' = ResolvePosition(cur_out)
    /\ UNCHANGED cur_out
    /\ UNCHANGED exceptCursor

Chars(str) ==
    CASE str = "x:640" -> <<"x", ":", "6", "4", "0">>
      [] str = "y:480" -> <<"y", ":", "4", "8", "0">>
      [] str = "screen:0" -> <<"s", "c", "r", "e", "e", "n", ":", "0">>
      [] str = "window:999" -> <<"w", "i", "n", "d", "o", "w", ":", "9", "9", "9">>
      [] str = "bad" -> <<"b", "a", "d">>
      [] str = "data" -> <<"d", "a", "t", "a">>
      [] str = "x:" -> <<"x", ":">>
      [] str = "x:-5" -> <<"x", ":", "-", "5">>
      [] str = "y:+07" -> <<"y", ":", "+", "0", "7">>
      [] str = "y:4x" -> <<"y", ":", "4", "x">>
      [] str = "x:2147483647" -> <<"x", ":", "2", "1", "4", "7", "4", "8", "3", "6", "4", "7">>
      [] str = "x:2147483648" -> <<"x", ":", "2", "1", "4", "7", "4", "8", "3", "6", "4", "8">>
      [] str = "y:-2147483648" -> <<"y", ":", "-", "2", "1", "4", "7", "4", "8", "3", "6", "4", "8">>
      [] str = "y:-2147483649" -> <<"y", ":", "-", "2", "1", "4", "7", "4", "8", "3", "6", "4", "9">>
      [] str = "X:5" -> <<"X", ":", "5">>

\* The tokens the cursor-location outputs are made of.
CursorTokens ==
    { Chars(t) : t \in {"x:640", "y:480", "bad", "x:", "x:-5", "y:+07", "y:4x",
                        "x:2147483648", "y:-2147483648", "y:-2147483649", "X:5"} }

RECURSIVE JoinTokens(_, _)
JoinTokens(toks, sep) ==
    IF toks = <<>> THEN <<>>
    ELSE IF Len(toks) = 1 THEN toks[1]
    ELSE toks[1] \o sep \o JoinTokens(Tail(toks), sep)

\* The line xdotool prints, and a line that is not one.
UsualOutput ==
    JoinTokens(<<Chars("x:640"), Chars("y:480"), Chars("screen:0"), Chars("window:999")>>, <<" ">>)

BadOutput == JoinTokens(<<Chars("bad"), Chars("data")>>, <<" ">>)

\* The outputs tried: those two, and up to MaxTokens tokens with one kind of
\* separator between them, with or without the line feed that ends a line.
CursorOutputs ==
    {UsualOutput, BadOutput} \cup
    { JoinTokens(toks, sep) \o end :
        toks \in UNION { [1..n -> CursorTokens] : n \in 0..MaxTokens },
        sep \in {<<" ">>, <<"TAB", " ">>},
        end \in {<<>>, <<"LF">>} }

InitCursorIdle ==
    /\ cur_out = <<>>
    /\ cur_pos = NoPos

(***************************************************************************)
(* trigger_quick_translate(app) and the two threads it spawns              *)
(***************************************************************************)
\* app.clipboard().read_text(): an error, or the text on the clipboard.
NotRead == [state |-> "unread", text |-> ""]

ClipboardReads ==
    {[state |-> "Err", text |-> ""]} \cup [state : {"Ok"}, text : {"", "a", "b"}]

\* .unwrap_or_default(): the text read, or "" for an error.
ClipboardText(read) == IF read.state = "Ok" THEN read.text ELSE ""

\* Command::new("xdotool").arg("getmouselocation").output(): the command
\* could not be launched, or it ran and left its stdout.
LocateResults ==
    {[launched |-> FALSE, stdout |-> <<>>]} \cup
    [launched : {TRUE}, stdout : {UsualOutput, BadOutput}]

\* The position the surface has before anything has set it.
UnsetPosition == <<"initial", "initial">>

InitSurface == [pos |-> UnsetPosition, visible |-> FALSE, focus_requested |-> FALSE]

Log(t, entry) == tq_log' = [tq_log EXCEPT ![t] = Append(@, entry)]

\* The first step as it would be were the activation thread spawned at the
\* start of the call.
TqCopySpawnsFirst(t, launched) ==
    /\ tq_pc[t] = "copy"
    /\ Log(t, IF launched THEN "copy" ELSE "copy_failed")
    /\ tq_pc' = [tq_pc EXCEPT ![t] = "read"]
    /\ act_pc' = [act_pc EXCEPT ![t] = "sleep"]
    /\ UNCHANGED <<hk_pressed, hk_released, quick_window, tq_key, tq_read, tq_located,
                   emit_pc, surface, emitted>>
    /\ UNCHANGED shortcutVars
    /\ UNCHANGED exceptTrigger

\* Lines 417-422: the copy keystroke; the result is discarded, then the
\* thread sleeps.
TqCopy(t, launched) ==
    /\ tq_pc[t] = "copy"
    /\ Log(t, IF launched THEN "copy" ELSE "copy_failed")
    /\ tq_pc' = [tq_pc EXCEPT ![t] = "read"]
    /\ UNCHANGED <<hk_pressed, hk_released, quick_window, tq_key, tq_read, tq_located,
                   act_pc, emit_pc, surface, emitted>>
    /\ UNCHANGED shortcutVars
    /\ UNCHANGED exceptTrigger

\* Line 425: let clipboard_text = app.clipboard().read_text().unwrap_or_default();
TqRead(t, read) ==
    /\ tq_pc[t] = "read"
    /\ tq_read' = [tq_read EXCEPT ![t] = read]
    /\ Log(t, "read")
    /\ tq_pc' = [tq_pc EXCEPT ![t] = "window"]
    /\ UNCHANGED <<hk_pressed, hk_released, quick_window, tq_key, tq_located,
                   act_pc, emit_pc, surface, emitted>>
    /\ UNCHANGED shortcutVars
    /\ UNCHANGED exceptTrigger

\* Line 428: if let Some(window) = app.get_webview_window("quick"); without
\* the window the function returns.
TqWindow(t) ==
    /\ tq_pc[t] = "window"
    /\ tq_pc' = [tq_pc EXCEPT ![t] = IF quick_window THEN "locate" ELSE "done"]
    /\ UNCHANGED <<hk_pressed, hk_released, quick_window, tq_key, tq_read, tq_located,
                   tq_log, act_pc, emit_pc, surface, emitted>>
    /\ UNCHANGED shortcutVars
    /\ UNCHANGED exceptTrigger

\* Lines 430-445: if let Ok(output) = ..getmouselocation.. { resolve x and y;
\* let _ = window.set_position(..) }; nothing is done when the command could
\* not be launched.
TqLocate(t, result) ==
    /\ tq_pc[t] = "locate"
    /\ IF result.launched
         THEN /\ surface' = [surface EXCEPT !.pos = ResolvePosition(result.stdout)]
              /\ tq_log' = [tq_log EXCEPT ![t] = @ \o <<"locate", "set_position">>]
              /\ tq_located' = [tq_located EXCEPT ![t] = "Ok"]
         ELSE /\ UNCHANGED surface
              /\ Log(t, "locate")
              /\ tq_located' = [tq_located EXCEPT ![t] = "Err"]
    /\ tq_pc' = [tq_pc EXCEPT ![t] = "show"]
    /\ UNCHANGED <<hk_pressed, hk_released, quick_window, tq_key, tq_read,
                   act_pc, emit_pc, emitted>>
    /\ UNCHANGED shortcutVars
    /\ UNCHANGED exceptTrigger

\* Line 447: let _ = window.show();
TqShow(t) ==
    /\ tq_pc[t] = "show"
    /\ surface' = [surface EXCEPT !.visible = TRUE]
    /\ Log(t, "show")
    /\ tq_pc' = [tq_pc EXCEPT ![t] = "focus"]
    /\ UNCHANGED <<hk_pressed, hk_released, quick_window, tq_key, tq_read, tq_located,
                   act_pc, emit_pc, emitted>>
    /\ UNCHANGED shortcutVars
    /\ UNCHANGED exceptTrigger

\* Line 448: let _ = window.set_focus();
TqFocus(t) ==
    /\ tq_pc[t] = "focus"
    /\ surface' = [surface EXCEPT !.focus_requested = TRUE]
    /\ Log(t, "set_focus")
    /\ tq_pc' = [tq_pc EXCEPT ![t] = "spawn_activate"]
    /\ UNCHANGED <<hk_pressed, hk_released, quick_window, tq_key, tq_read, tq_located,
                   act_pc, emit_pc, emitted>>
    /\ UNCHANGED shortcutVars
    /\ UNCHANGED exceptTrigger

\* Lines 452-458: std::thread::spawn of the activation thread.
TqSpawnActivate(t) ==
    /\ tq_pc[t] = "spawn_activate"
    /\ act_pc' = [act_pc EXCEPT ![t] = "sleep"]
    /\ tq_pc' = [tq_pc EXCEPT ![t] = "spawn_emit"]
    /\ UNCHANGED <<hk_pressed, hk_released, quick_window, tq_key, tq_read, tq_located,
                   tq_log, emit_pc, surface, emitted>>
    /\ UNCHANGED shortcutVars
    /\ UNCHANGED exceptTrigger

\* The last step as it would be without the test of clipboard_text.
TqSpawnEmitAlways(t) ==
    /\ tq_pc[t] = "spawn_emit"
    /\ emit_pc' = [emit_pc EXCEPT ![t] = "sleep"]
    /\ tq_pc' = [tq_pc EXCEPT ![t] = "done"]
    /\ UNCHANGED <<hk_pressed, hk_released, quick_window, tq_key, tq_read, tq_located,
                   tq_log, act_pc, surface, emitted>>
    /\ UNCHANGED shortcutVars
    /\ UNCHANGED exceptTrigger

\* Lines 461-469: if !clipboard_text.is_empty() { spawn the delivery thread };
\* then the function returns.
TqSpawnEmit(t) ==
    /\ tq_pc[t] = "spawn_emit"
    /\ emit_pc' = [emit_pc EXCEPT ![t] =
                     IF ClipboardText(tq_read[t]) # "" THEN "sleep" ELSE @]
    /\ tq_pc' = [tq_pc EXCEPT ![t] = "done"]
    /\ UNCHANGED <<hk_pressed, hk_released, quick_window, tq_key, tq_read, tq_located,
                   tq_log, act_pc, surface, emitted>>
    /\ UNCHANGED shortcutVars
    /\ UNCHANGED exceptTrigger

\* Lines 453-457: the activation thread sleeps, then runs the window search
\* and activation; the result is discarded.
ActRun(t) ==
    /\ act_pc[t] = "sleep"
    /\ act_pc' = [act_pc EXCEPT ![t] = "done"]
    /\ Log(t, "activate")
    /\ UNCHANGED <<hk_pressed, hk_released, quick_window, tq_key, tq_pc, tq_read, tq_located,
                   emit_pc, surface, emitted>>
    /\ UNCHANGED shortcutVars
    /\ UNCHANGED exceptTrigger

\* The delivery thread as it would be did it end without sending.
EmitRunSilent(t) ==
    /\ emit_pc[t] = "sleep"
    /\ emit_pc' = [emit_pc EXCEPT ![t] = "done"]
    /\ UNCHANGED <<hk_pressed, hk_released, quick_window, tq_key, tq_pc, tq_read,
                   tq_located, tq_log, act_pc, surface, emitted>>
    /\ UNCHANGED shortcutVars
    /\ UNCHANGED exceptTrigger

\* Lines 464-465: the delivery thread sleeps, then
\* let _ = app_clone.emit_to("quick", "quick-translate-text", clipboard_text);
EmitRun(t) ==
    /\ emit_pc[t] = "sleep"
    /\ emit_pc' = [emit_pc EXCEPT ![t] = "done"]
    /\ emitted' = Append(emitted, [trigger |-> t, text |-> ClipboardText(tq_read[t])])
    /\ Log(t, "emit")
    /\ UNCHANGED <<hk_pressed, hk_released, quick_window, tq_key, tq_pc, tq_read, tq_located,
                   act_pc, surface>>
    /\ UNCHANGED shortcutVars
    /\ UNCHANGED exceptTrigger

\* No event handled, no call made; the window is the environment's.
InitTriggerIdle ==
    /\ hk_pressed = 0
    /\ hk_released = 0
    /\ tq_pc = [t \in Triggers |-> "idle"]
    /\ tq_key = [t \in Triggers |-> "none"]
    /\ tq_read = [t \in Triggers |-> NotRead]
    /\ tq_located = [t \in Triggers |-> "none"]
    /\ tq_log = [t \in Triggers |-> <<>>]
    /\ act_pc = [t \in Triggers |-> "idle"]
    /\ emit_pc = [t \in Triggers |-> "idle"]
    /\ surface = InitSurface
    /\ emitted = <<>>

(***************************************************************************)
(* Claims about the shortcut store                                         *)
(***************************************************************************)
OthersIdle(p) == \A q \in Updaters \ {p} : us_pc[q] = "idle"

\* C1: an update_shortcut whose argument does not parse returns an error and
\* leaves the binding that was stored and registered when it was called both
\* stored and registered (so that a press of it still starts the trigger).
C1_InvalidUpdateKeepsBinding ==
    \A p \in Updaters :
        ( /\ us_pc[p] = "done"
          /\ us_ret[p] = "Err(parse)"
          /\ us_pre[p].consistent
          /\ OthersIdle(p) )
        => /\ current_shortcut = us_pre[p].stored
           /\ ParseShortcut(us_pre[p].stored) \in registered

\* C2: in every reachable state at most one hotkey is registered with the OS.
C2_AtMostOneRegistered == Cardinality(registered) <= 1

\* C3: when update_shortcut has failed because the OS rejected the new binding
\* and no update_shortcut is in progress, the stored shortcut is the prior one
\* and the OS registration is exactly the stored shortcut.
C3_FailedRegisterKeepsPrior ==
    \A p \in Updaters :
        ( /\ us_pc[p] = "done"
          /\ us_ret[p] = "Err(register)"
          /\ us_pre[p].consistent
          /\ OthersIdle(p) )
        => /\ current_shortcut = us_pre[p].stored
           /\ Consistent(current_shortcut, registered)

(***************************************************************************)
(* Claims about the request dispatcher                                     *)
(***************************************************************************)
\* C4: proxy_request never returns an error to its caller: every finished
\* invocation has returned a RequestResult (Ok(ProxyResponse)), whatever the
\* stored proxy configuration.
C4_NeverReturnsErr ==
    \A r \in Requests : pr_pc[r] = "done" => pr_ret[r].tag = "Ok"

\* C5: every RequestResult that proxy_request produces has one of two shapes:
\* a response (status_code and data present, error absent, ok iff the status is
\* in 200..299) or a transport failure (ok false, status_code and data absent,
\* error present).
C5_ResultShapes ==
    \A r \in Requests :
        (pr_pc[r] = "done" /\ pr_ret[r].tag = "Ok") =>
            LET x == pr_ret[r] IN
              \/ /\ x.status_code # None
                 /\ x.data # None
                 /\ x.error = None
                 /\ x.ok <=> (x.status_code[1] \in 200..299)
              \/ /\ x.ok = FALSE
                 /\ x.status_code = None
                 /\ x.data = None
                 /\ x.error # None

\* An invocation has returned the result of a transport failure.
C5_Witness ==
    \E r \in Requests :
        /\ pr_pc[r] = "done"
        /\ pr_ret[r].tag = "Ok"
        /\ pr_ret[r].error # None

\* C7: an invocation that read a stored configuration with enabled = false
\* builds the transport, and returns the result, that it builds and returns
\* when no configuration is stored.
C7_DisabledIsDirect ==
    \A r \in Requests :
        (pr_seen[r].set /\ ~pr_seen[r].enabled) =>
            /\ pr_pc[r] \in {"send", "await"} =>
                  pr_client[r] = BuildClient(NoProxy).client
            /\ pr_pc[r] = "done" =>
                  pr_ret[r] = ResponseOf(net[BuildClient(NoProxy).client.kind])

\* An invocation that read a disabled configuration, one whose proxy could not
\* have been built, has returned a response.
C7_Witness ==
    \E r \in Requests :
        /\ pr_pc[r] = "done"
        /\ pr_seen[r].set /\ ~pr_seen[r].enabled
        /\ pr_seen[r].protocol = "ftp"
        /\ pr_ret[r].status_code # None

\* C6: the verb of the request is the one of GET, POST, PUT, DELETE, PATCH that
\* the method string equals ignoring letter case, and GET for any other string
\* and for an absent method. (Letter case is Unicode's: the long s is a lower
\* case s, the ligature st a lower case st.)
Verbs == {"GET", "POST", "PUT", "DELETE", "PATCH"}

VerbChars(v) ==
    CASE v = "GET" -> GET_ [] v = "POST" -> POST_ [] v = "PUT" -> PUT_
      [] v = "DELETE" -> DELETE_ [] v = "PATCH" -> PATCH_

FoldChar(c) ==
    IF IsUpperLetter(c) THEN <<LowerLetter(c)>>
    ELSE IF c = "LONG_S" THEN <<"s">>
    ELSE IF c = "ST_LIG" THEN <<"s", "t">>
    ELSE <<c>>

RECURSIVE CaseFold(_)
CaseFold(s) == IF s = <<>> THEN <<>> ELSE FoldChar(Head(s)) \o CaseFold(Tail(s))

EqualsIgnoringCase(a, b) == CaseFold(a) = CaseFold(b)

ExpectedVerb(method) ==
    IF method # None /\ \E v \in Verbs : EqualsIgnoringCase(method[1], VerbChars(v))
      THEN CHOOSE v \in Verbs : EqualsIgnoringCase(method[1], VerbChars(v))
      ELSE "GET"

\* C6: every request that has selected its verb selected the verb its method
\* string equals ignoring letter case, and GET when there is none.
C6_VerbSelection ==
    \A r \in Requests :
        pr_verb[r] # "none" => pr_verb[r] = ExpectedVerb(pr_method[r])

\* A request was sent as DELETE for a method spelled in mixed case.
C6_Witness ==
    \E r \in Requests :
        /\ pr_method[r] = Some(<<"d", "E", "l", "e", "T", "e">>)
        /\ pr_verb[r] = "DELETE"

(***************************************************************************)
(* Claims about capture_screen and ocr_image                               *)
(***************************************************************************)
\* C8: whenever capture_screen has returned, on any of its return paths, its
\* scratch file is not on disk.
C8_NoScratchFileAfterReturn == cs_pc = "done" => ~png_exists

\* C9: ocr_image applied to a payload wrapped as a data URL (a prefix, one
\* comma, the payload; neither holds a comma) returns what ocr_image applied to
\* the payload itself returns under the same environment, and hands the
\* engine the same bytes.
CommaCount(s) == Cardinality({ i \in 1..Len(s) : s[i] = "," })

AfterTheComma(s) ==
    LET i == CHOOSE k \in 1..Len(s) : s[k] = "," IN SubSeq(s, i + 1, Len(s))

\* C9: the outcome for a wrapped payload is the outcome for the payload alone.
C9_WrappedEqualsRaw ==
    (ocr_out # NoOcr /\ CommaCount(ocr_in) = 1) =>
        ocr_out = OcrImage(AfterTheComma(ocr_in), ocr_env)

\* A wrapped payload with a prefix was decoded to image bytes and recognised.
C9_Witness ==
    /\ ocr_out.tag = "Ok" /\ ocr_out.success
    /\ CommaCount(ocr_in) = 1 /\ ocr_in[1] # ","
    /\ ocr_out.image_bytes # None /\ ocr_out.image_bytes[1] # <<>>

\* C10: on a successful run the text is the non-blank lines of the engine's
\* stdout, in order, joined by one space each; it holds no line feed, and when
\* the lines themselves hold no space and no stray carriage return it holds no
\* two adjacent spaces and no space at either end.
\* The lines of stdout, by position: a line starts at the beginning and after
\* each "LF" and ends before the next "LF" (less a "CR" just before it) or at
\* the end of the text.
LineStarts(s) == { i \in 1..Len(s) : i = 1 \/ s[i - 1] = "LF" }

LineAt(s, i) ==
    LET stop == IF \E j \in i..Len(s) : s[j] = "LF"
                  THEN CHOOSE j \in i..Len(s) :
                         s[j] = "LF" /\ \A k \in i..(j - 1) : s[k] # "LF"
                  ELSE Len(s) + 1
        last == IF stop <= Len(s) /\ stop - 1 >= i /\ s[stop - 1] = "CR"
                  THEN stop - 2 ELSE stop - 1
    IN  SubSeq(s, i, last)

IsBlank(l) == \A i \in 1..Len(l) : l[i] \in {" ", "CR"}

NonBlankStarts(s) == { i \in LineStarts(s) : ~IsBlank(LineAt(s, i)) }

RECURSIVE JoinedFrom(_, _)
JoinedFrom(s, starts) ==
    IF starts = {} THEN <<>>
    ELSE LET i == CHOOSE k \in starts : \A m \in starts : k <= m IN
           IF starts = {i} THEN LineAt(s, i)
           ELSE LineAt(s, i) \o <<" ">> \o JoinedFrom(s, starts \ {i})

Tidy(s) ==
    \A i \in 1..Len(s) :
        /\ s[i] # " "
        /\ s[i] = "CR" => (i < Len(s) /\ s[i + 1] = "LF")

\* C10: the text of a successful run is the non-blank lines of stdout joined
\* by single spaces, free of line feeds and, for tidy lines, of doubled or
\* outer spaces.
C10_CleanedText ==
    (ocr_out.tag = "Ok" /\ ocr_out.success) =>
        LET t == ocr_out.text[1]
            out == ocr_env.stdout
        IN  /\ ocr_out.text # None
            /\ \A i \in 1..Len(t) : t[i] # "LF"
            /\ t = JoinedFrom(out, NonBlankStarts(out))
            /\ Tidy(out) =>
                  /\ \A i \in 1..(Len(t) - 1) : ~(t[i] = " " /\ t[i + 1] = " ")
                  /\ t # <<>> => (t[1] # " " /\ t[Len(t)] # " ")

\* A run whose stdout has a blank line and a whitespace-only line between two
\* lines of text.
C10_Witness ==
    /\ ocr_out.tag = "Ok" /\ ocr_out.success
    /\ ocr_env.stdout = <<"a", "LF", "LF", "CR", "LF", "a">>
    /\ ocr_out.text = Some(<<"a", " ", "a">>)

(***************************************************************************)
(* Claims about check_ocr_dependencies                                     *)
(***************************************************************************)
\* C11: check_ocr_dependencies returns a status and never an error, whatever
\* the three probes do; the version is present iff the engine is reported
\* installed; the language list is empty when the engine is reported not
\* installed; and with neither the engine nor the screenshot tool found the
\* status is {installed: false, version: None, languages: [], screenshot: false}.
C11_ProbesDegrade ==
    dep_out # NoDeps =>
        /\ dep_out.tag = "Ok"
        /\ (dep_out.tesseract_version # None) <=> dep_out.tesseract_installed
        /\ ~dep_out.tesseract_installed => dep_out.languages = <<>>
        /\ (~ProbeOk(dep_env.version) /\ ~ProbeOk(dep_env.which)) =>
              dep_out = [tag |-> "Ok",
                         tesseract_installed |-> FALSE,
                         tesseract_version |-> None,
                         languages |-> <<>>,
                         gnome_screenshot_installed |-> FALSE]

\* The engine's version query failed while its list query would have named a
\* language, and the screenshot tool was found: the status has no languages.
C11_Witness ==
    /\ dep_out # NoDeps
    /\ ~dep_out.tesseract_installed
    /\ ProbeOk(dep_env.langs) /\ Len(lines(dep_env.langs.stdout)) >= 2
    /\ dep_out.languages = <<>>
    /\ dep_out.gnome_screenshot_installed

(***************************************************************************)
(* Claims about the cursor position                                        *)
(***************************************************************************)
\* The tokens of a text by position: a token starts at a non-whitespace
\* character that follows whitespace or nothing, and runs to the next
\* whitespace.
TokenStarts(s) ==
    { i \in 1..Len(s) : ~IsWhitespace(s[i]) /\ (i = 1 \/ IsWhitespace(s[i - 1])) }

TokenAt(s, i) ==
    LET ends == { j \in i..Len(s) : \A k \in i..j : ~IsWhitespace(s[k]) } IN
      SubSeq(s, i, CHOOSE j \in ends : \A k \in ends : k <= j)

\* The tokens that start with the two characters of `prefix`.
TokensPrefixed(s, prefix) ==
    { i \in TokenStarts(s) :
        Len(TokenAt(s, i)) >= 2 /\ TokenAt(s, i)[1] = prefix[1] /\ TokenAt(s, i)[2] = prefix[2] }

AfterPrefix(tok) == SubSeq(tok, 3, Len(tok))

Unsigned(lit) == IF lit # <<>> /\ lit[1] \in {"+", "-"} THEN Tail(lit) ELSE lit

RECURSIVE StripZeros(_)
StripZeros(ds) == IF Len(ds) > 1 /\ ds[1] = "0" THEN StripZeros(Tail(ds)) ELSE ds

\* Decimal digits compared as numbers of the same length.
LexLeq(a, b) ==
    \/ a = b
    \/ \E i \in 1..Len(a) :
          /\ DigitValue(a[i]) < DigitValue(b[i])
          /\ \A j \in 1..(i - 1) : a[j] = b[j]

\* The text is an integer literal whose value a 32-bit coordinate can hold.
IsInteger(lit) ==
    LET ds == StripZeros(Unsigned(lit)) IN
      /\ Unsigned(lit) # <<>>
      /\ \A i \in 1..Len(Unsigned(lit)) : IsDigit(Unsigned(lit)[i])
      /\ \/ Len(ds) < 10
         \/ /\ Len(ds) = 10
            /\ LexLeq(ds, IF lit[1] = "-"
                             THEN <<"2", "1", "4", "7", "4", "8", "3", "6", "4", "8">>
                             ELSE <<"2", "1", "4", "7", "4", "8", "3", "6", "4", "7">>)

RECURSIVE SignedSum(_, _)
SignedSum(ds, sign) ==
    IF ds = <<>> THEN 0
    ELSE sign * DigitValue(ds[1]) * 10 ^ (Len(ds) - 1) + SignedSum(Tail(ds), sign)

IntegerValue(lit) ==
    SignedSum(StripZeros(Unsigned(lit)), IF lit[1] = "-" THEN -1 ELSE 1)

\* The coordinate a text gives for one prefix, when at most one token has it.
ExpectedCoordinate(s, prefix) ==
    LET toks == TokensPrefixed(s, prefix) IN
      IF toks = {} THEN 100
      ELSE LET lit == AfterPrefix(TokenAt(s, CHOOSE i \in toks : TRUE)) IN
             IF IsInteger(lit) THEN IntegerValue(lit) ELSE 100

\* C12: the resolved position takes x from the token prefixed "x:" and y from
\* the token prefixed "y:", wherever they stand, and 100 for a coordinate
\* whose token is missing or is no integer; the usual line resolves to
\* (640, 480) and "bad data" to (100, 100).
C12_PositionFromTokens ==
    cur_pos # NoPos =>
        /\ Cardinality(TokensPrefixed(cur_out, <<"x", ":">>)) <= 1 =>
              cur_pos[1] = ExpectedCoordinate(cur_out, <<"x", ":">>)
        /\ Cardinality(TokensPrefixed(cur_out, <<"y", ":">>)) <= 1 =>
              cur_pos[2] = ExpectedCoordinate(cur_out, <<"y", ":">>)
        /\ cur_out = UsualOutput => cur_pos = <<640, 480>>
        /\ cur_out = BadOutput => cur_pos = <<100, 100>>

\* The y token stands before the x token, and both were read.
C12_Witness ==
    /\ cur_out = JoinTokens(<<Chars("y:480"), Chars("bad"), Chars("x:-5")>>, <<" ">>) \o <<"LF">>
    /\ cur_pos = <<-5, 480>>

(***************************************************************************)
(* Claims about the capture sequence                                       *)
(***************************************************************************)
InLog(t, entry) == \E i \in 1..Len(tq_log[t]) : tq_log[t][i] = entry

\* C13: whatever fails among the copy keystroke, the clipboard read and the
\* cursor-location command, a call that has returned has positioned the
\* surface, shown it and asked for focus; when the cursor-location command
\* could not be run the surface is at the default position (100, 100); and
\* when the clipboard read failed no text is delivered.
C13_NeverAborted ==
    \A t \in Triggers :
        (tq_pc[t] = "done" /\ quick_window) =>
            /\ InLog(t, "set_position") /\ InLog(t, "show") /\ InLog(t, "set_focus")
            /\ (tq_located[t] = "Err" /\ t = triggers) => surface.pos = <<100, 100>>
            /\ tq_read[t].state = "Err" =>
                  /\ emit_pc[t] = "idle"
                  /\ \A i \in 1..Len(emitted) : emitted[i].trigger # t

\* C14: the capture sequence is started by the Pressed events of a registered
\* hotkey and by nothing else, once per event: the calls started are as many
\* as the Pressed events handled, each started by a hotkey that parses from a
\* binding string, and Released events start none.
C14_PressedStartsOnce ==
    /\ triggers = hk_pressed
    /\ Cardinality({ t \in Triggers : tq_pc[t] # "idle" }) = hk_pressed
    /\ \A t \in Triggers : tq_pc[t] # "idle" => tq_key[t] \in Hotkeys

\* A Released event has been handled, and a press of the binding that
\* update_shortcut registered has started a call.
C14_Witness ==
    /\ hk_released >= 1
    /\ \E t \in Triggers : tq_pc[t] # "idle" /\ tq_key[t] = ParseShortcut("Alt+T")

\* The place of each effect in the sequence; the two threads' effects share
\* the last place.
Rank(entry) ==
    CASE entry \in {"copy", "copy_failed"} -> 1
      [] entry = "read" -> 2
      [] entry = "locate" -> 3
      [] entry = "set_position" -> 4
      [] entry = "show" -> 5
      [] entry = "set_focus" -> 6
      [] entry \in {"activate", "emit"} -> 7

\* The places that an effect of the given place cannot do without: every
\* earlier step of the call for a step of the call, the steps up to the show
\* for a thread's effect (set_position, place 4, is left out when the
\* cursor-location command could not be run).
Needed(rank) == (1..(IF rank = 7 THEN 5 ELSE rank - 1)) \ {4}

\* C15: within each call the effects happen in the order copy keystroke,
\* clipboard read, cursor query and positioning, show, focus request, each
\* once and none before the ones ahead of it; the activation and the
\* delivery of the call come after its show, in either order.
C15_StepsInOrder ==
    \A t \in Triggers :
        LET l == tq_log[t] IN
          /\ \A i, j \in 1..Len(l) :
                i < j => \/ Rank(l[i]) < Rank(l[j])
                         \/ {l[i], l[j]} = {"activate", "emit"}
          /\ \A i \in 1..Len(l) :
                \A r \in Needed(Rank(l[i])) : \E k \in 1..(i - 1) : Rank(l[k]) = r

\* One call whose activation came before its delivery and one whose delivery
\* came before its activation.
C15_Witness ==
    \E t, u \in Triggers :
        /\ \E i, j \in 1..Len(tq_log[t]) :
              i < j /\ tq_log[t][i] = "activate" /\ tq_log[t][j] = "emit"
        /\ \E i, j \in 1..Len(tq_log[u]) :
              i < j /\ tq_log[u][i] = "emit" /\ tq_log[u][j] = "activate"

\* The events that a call has sent.
EventsOf(t) == { i \in 1..Len(emitted) : emitted[i].trigger = t }

\* C16: every call sends the quick-translate-text event at most once; what it
\* sends is the text its own clipboard read returned; and a call whose read
\* failed or returned the empty text sends nothing. Calls overlap.
C16_EmitsOwnTextOnce ==
    \A t \in Triggers :
        /\ Cardinality(EventsOf(t)) <= 1
        /\ \A i \in EventsOf(t) :
              /\ tq_read[t].state = "Ok"
              /\ tq_read[t].text # ""
              /\ emitted[i].text = tq_read[t].text

\* The second call has read its text while the first one's delivery is still
\* to come, and the two texts differ; then both are sent, the second first.
C16_Witness ==
    /\ Len(emitted) = 2
    /\ emitted[1] = [trigger |-> 2, text |-> "b"]
    /\ emitted[2] = [trigger |-> 1, text |-> "a"]

\* A call has read a text that is not empty, and the surface is there.
HasText(t) ==
    /\ quick_window
    /\ tq_read[t].state = "Ok"
    /\ tq_read[t].text # ""

Delivered(t) == \E i \in EventsOf(t) : emitted[i].text = tq_read[t].text

InFlight(r) == pr_pc[r] \in {"send", "await"}

\* In every state: an invocation past its build step does not hold the lock,
\* its transport is the one built from the configuration it read, its answer
\* does not wait for the lock, and a set_proxy waiting for the lock finds it
\* free unless an invocation is in its build step.
C18_State ==
    /\ \A r \in Requests :
          /\ pr_pc[r] \in {"send", "await", "done"} => proxy_lock # <<"proxy_request", r>>
          /\ InFlight(r) => pr_client[r] = BuildClient(pr_seen[r]).client
          /\ pr_pc[r] = "await" => ENABLED PrComplete(r)
    /\ (sp_pc = "lock" /\ \A r \in Requests : pr_pc[r] # "build") => ENABLED SpLock

\* In every step: the configuration an invocation reads is the stored one at
\* that moment, read while it holds the lock, and it is read once; a write of
\* the store leaves the transport of every invocation as it was.
C18_Step ==
    /\ \A r \in Requests :
          pr_seen'[r] # pr_seen[r] =>
              \/ /\ pr_pc[r] = "build" /\ proxy_lock = <<"proxy_request", r>>
                 /\ pr_seen'[r] = proxy_settings
              \/ pr_pc'[r] = "idle"
    /\ proxy_settings' # proxy_settings =>
          /\ proxy_lock = <<"set_proxy", 0>>
          /\ pr_client' = pr_client

\* C18: proxy_request reads the stored configuration once, under the lock, to
\* build its transport, and releases the lock before the request is sent; a
\* concurrent set_proxy neither waits for a request in flight nor holds it up
\* nor changes its transport; and a dispatch builds from the configuration
\* stored when it builds (no client is kept from one dispatch to the next).
C18_ReadOnceUnderLock == []C18_State /\ [][C18_Step]_vars

\* A request is in flight over the direct transport while the store already
\* holds an enabled proxy that a set_proxy wrote after the build.
C18_Witness ==
    \E r \in Requests :
        /\ pr_pc[r] = "await"
        /\ pr_client[r] = DirectClient
        /\ proxy_settings.set /\ proxy_settings.enabled
        /\ proxy_settings.protocol = "http"

\* A step in which invocation p calls the OS hotkey subsystem: the
\* unregistration of the old binding, or the registration of the new one.
HotkeySubsystemCall(p) ==
    \/ /\ us_pc[p] = "unregister" /\ us_pc'[p] # "unregister"
       /\ ParseShortcut(current_shortcut) # ParseError
    \/ us_pc[p] = "register" /\ us_pc'[p] # "register"

\* A step in which invocation r sends its request or takes its answer.
NetworkCall(r) ==
    \/ pr_pc[r] = "send" /\ pr_pc'[r] # "send"
    \/ pr_pc[r] = "await" /\ pr_pc'[r] # "await"

\* C19: no call to the OS hotkey subsystem and no network request is made
\* while the shortcut lock or the proxy lock is held: every such step starts
\* with both locks free.
C19_NoLockAcrossExternalCall ==
    [][ ((\E p \in Updaters : HotkeySubsystemCall(p)) \/ (\E r \in Requests : NetworkCall(r)))
          => (shortcut_lock = 0 /\ proxy_lock = Free) ]_vars

\* A step in which invocation p writes its argument to the store and returns
\* success.
CommitStep(p) ==
    /\ us_pc[p] = "commit" /\ us_pc'[p] = "done"
    /\ us_ret'[p] = "Ok(true)"
    /\ current_shortcut' = us_arg[p]

\* A step in which invocation p's registration of its argument succeeds.
RegisteredStep(p) ==
    /\ us_pc[p] = "register"
    /\ ParseShortcut(us_arg[p]) # ParseError
    /\ ParseShortcut(us_arg[p]) \notin registered
    /\ ParseShortcut(us_arg[p]) \in registered'

\* The store changes only in a commit step; an invocation comes to its commit
\* only through a successful registration, and returns success only by its
\* commit.
C20_Step ==
    /\ current_shortcut' # current_shortcut => \E p \in Updaters : CommitStep(p)
    /\ \A p \in Updaters :
         /\ (us_pc'[p] = "lock_new" /\ us_pc[p] # "lock_new") => RegisteredStep(p)
         /\ (us_pc'[p] = "commit" /\ us_pc[p] # "commit") => us_pc[p] = "lock_new"
         /\ (us_ret'[p] = "Ok(true)" /\ us_ret[p] # "Ok(true)") => CommitStep(p)

\* An invocation that has returned an error has left the store as it was at
\* the call, and the error has its own cause: the argument does not parse, or
\* the OS does not accept the hotkey it parses to. An invocation that has
\* returned success has stored its argument.
C20_State ==
    \A p \in Updaters :
        us_pc[p] = "done" =>
            /\ us_ret[p] \in {"Err(parse)", "Err(register)", "Ok(true)"}
            /\ us_ret[p] = "Err(parse)" =>
                  /\ current_shortcut = us_pre[p].stored
                  /\ ParseShortcut(us_arg[p]) = ParseError
            /\ us_ret[p] = "Err(register)" =>
                  /\ current_shortcut = us_pre[p].stored
                  /\ ParseShortcut(us_arg[p]) # ParseError
                  /\ ParseShortcut(us_arg[p]) \in os_taken \cup registered
            /\ us_ret[p] = "Ok(true)" => current_shortcut = us_arg[p]

\* C20: the stored shortcut is written only by the commit of an
\* update_shortcut that returns success, after its registration succeeded, and
\* the value written is its argument; on every error return the stored
\* shortcut is the one stored at the call; and the only errors are those of
\* the new binding (its parse, its registration), never of the old one.
C20_StoreWrittenOnSuccessOnly == []C20_State /\ [][C20_Step]_vars

\* An update_shortcut has failed at registration after an earlier one had
\* changed the store, and one has succeeded although the startup binding was
\* never registered (so that its unregistration failed).
C20_Witness ==
    /\ current_shortcut = "Alt+T"
    /\ ParseShortcut(DefaultShortcut) \in os_taken
    /\ us_pc[1] = "done"
    /\ us_ret[1] = "Err(register)"
    /\ us_pre[1].stored = "Alt+T"

(***************************************************************************)
(* Claims about the payload of ocr_image and about the two locks together  *)
(***************************************************************************)
\* Everything after the first comma of s, further commas included; s itself
\* when it holds no comma.
RemainderAfterFirstComma(s) ==
    IF Contains(s, ",") THEN SubSeq(s, FirstIndex(s, ",") + 1, Len(s)) ELSE s

\* C21: for every argument of ocr_image the payload given to the base64
\* decoder is the whole argument when it holds no comma, and otherwise all of
\* it after its first comma, further commas included.
C21_PayloadIsRemainder ==
    ocr_out # NoOcr =>
        /\ ExtractPayload(ocr_in) = RemainderAfterFirstComma(ocr_in)
        /\ (ocr_out.tag = "Err" /\ ocr_out.error = Some("Failed to decode base64"))
              <=> ~Base64Decode(RemainderAfterFirstComma(ocr_in)).ok

\* The invocations that wait for a lock.
WaitsForShortcutLock(p) == us_pc[p] \in {"lock_old", "lock_new"}

WaitsForProxyLock(r) == pr_pc[r] = "lock"

\* A step of a command that takes a lock, works under it or gives it back.
LockStep ==
    \/ \E p \in Updaters : UsLockOld(p) \/ UsUnregisterOld(p) \/ UsUnlockOld(p)
                              \/ UsLockNew(p) \/ UsCommit(p)
    \/ \E r \in Requests : PrLock(r) \/ PrBuild(r)
    \/ SpLock
    \/ SpWrite

\* Each lock is with a command only inside the block that took it; a command
\* that waits for a lock holds none; and when a command waits, a step under
\* the locks can be taken.
C22_State ==
    /\ \A p \in Updaters :
         /\ shortcut_lock = p <=> us_pc[p] \in {"unregister", "unlock_old", "commit"}
         /\ WaitsForShortcutLock(p) => shortcut_lock # p
    /\ shortcut_lock \in Updaters \cup {0}
    /\ \A r \in Requests :
         /\ proxy_lock = <<"proxy_request", r>> <=> pr_pc[r] = "build"
         /\ WaitsForProxyLock(r) => proxy_lock # <<"proxy_request", r>>
    /\ proxy_lock = <<"set_proxy", 0>> <=> sp_pc = "write"
    /\ sp_pc = "lock" => proxy_lock # <<"set_proxy", 0>>
    /\ proxy_lock \in {Free, <<"set_proxy", 0>>} \cup { <<"proxy_request", r>> : r \in Requests }
    /\ ( \/ \E p \in Updaters : WaitsForShortcutLock(p)
         \/ \E r \in Requests : WaitsForProxyLock(r)
         \/ sp_pc = "lock" ) => ENABLED LockStep

NetDown == [k \in TransportKinds |-> TransportFailure]

\* The shortcut store with the OS hotkey subsystem.
Init ==
    /\ InitShortcut
    /\ os_taken \in SUBSET Hotkeys
    /\ InitProxyIdle /\ net = NetDown
    /\ InitCapture
    /\ InitOcrIdle
    /\ InitDepsIdle
    /\ InitCursorIdle
    /\ InitTriggerIdle /\ quick_window = TRUE

Next ==
    \/ SetupGlobalShortcut
    \/ \E p \in Updaters, s \in ShortcutStrings : UsCall(p, s)
    \/ \E p \in Updaters : UsLockOld(p)
    \/ \E p \in Updaters : UsUnregisterOld(p)
    \/ \E p \in Updaters : UsUnlockOld(p)
    \/ \E p \in Updaters : UsParseNew(p)
    \/ \E p \in Updaters : UsRegisterNew(p)
    \/ \E p \in Updaters : UsLockNew(p)
    \/ \E p \in Updaters : UsCommit(p)
    \/ \E p \in Updaters : UsReturn(p)
    \/ \E k \in Hotkeys, st \in {"Pressed", "Released"} : HotkeyEvent(k, st)

Spec == Init /\ [][Next]_vars

\* The request dispatcher with the proxy store.
InitProxy ==
    /\ InitProxyIdle
    /\ net \in [TransportKinds -> Outcomes]
    /\ InitShortcut /\ os_taken = {}
    /\ InitCapture
    /\ InitOcrIdle
    /\ InitDepsIdle
    /\ InitCursorIdle
    /\ InitTriggerIdle /\ quick_window = TRUE

NextProxy ==
    \/ \E r \in Requests, m \in SmallMethods : PrCall(r, m)
    \/ \E r \in Requests : PrLock(r)
    \/ \E r \in Requests : PrBuild(r)
    \/ \E r \in Requests : PrSend(r)
    \/ \E r \in Requests : PrComplete(r)
    \/ \E r \in Requests : PrReturn(r)
    \/ \E c \in ProxyConfigs : SpCall(c)
    \/ SpLock
    \/ SpWrite

SpecProxy == InitProxy /\ [][NextProxy]_vars

\* One invocation of the request dispatcher at a time, over its method
\* strings, with no proxy stored.
InitVerb ==
    /\ InitProxyIdle
    /\ net \in { [k \in TransportKinds |-> o] :
                    o \in {TransportFailure, [sent |-> TRUE, status |-> 200, body |-> Some("ok")]} }
    /\ InitShortcut /\ os_taken = {}
    /\ InitCapture
    /\ InitOcrIdle
    /\ InitDepsIdle
    /\ InitCursorIdle
    /\ InitTriggerIdle /\ quick_window = TRUE

NextVerb ==
    \/ \E m \in MethodInputs : PrCall(1, m)
    \/ PrLock(1)
    \/ PrBuild(1)
    \/ PrSend(1)
    \/ PrComplete(1)
    \/ PrReturn(1)

SpecVerb == InitVerb /\ [][NextVerb]_vars

\* capture_screen against the file system and the screenshot tool.
InitCap ==
    /\ InitCapture
    /\ InitShortcut /\ os_taken = {}
    /\ InitProxyIdle /\ net = NetDown
    /\ InitOcrIdle
    /\ InitDepsIdle
    /\ InitCursorIdle
    /\ InitTriggerIdle /\ quick_window = TRUE

NextCapture ==
    \/ CsCall
    \/ \E created \in BOOLEAN : CsTempFile(created)
    \/ \E launched, exit_ok, wrote \in BOOLEAN : CsRunTool(launched, exit_ok, wrote)
    \/ CsCheckStatus
    \/ CsCheckExists
    \/ \E read_ok \in BOOLEAN : CsRead(read_ok)
    \/ \E removed \in BOOLEAN : CsRemove(removed)
    \/ CsReturn

SpecCapture == InitCap /\ [][NextCapture]_vars

\* ocr_image over its arguments, with few engine outputs.
InitOcr ==
    /\ ocr_in \in StringsUpTo(InputAlphabet, MaxInput)
    /\ ocr_env \in [fail : OcrFailures,
                    stdout : {<<"a", "LF">>, <<"a", "LF", "LF", "a">>},
                    stderr : {<<"e">>}]
    /\ ocr_out = NoOcr
    /\ InitShortcut /\ os_taken = {}
    /\ InitProxyIdle /\ net = NetDown
    /\ InitCapture
    /\ InitDepsIdle
    /\ InitCursorIdle
    /\ InitTriggerIdle /\ quick_window = TRUE

NextOcr == OcrRun

SpecOcr == InitOcr /\ [][NextOcr]_vars

\* ocr_image over the engine's outputs, with few arguments.
InitOcrText ==
    /\ ocr_in \in {<<"Q", "Q", "=", "=">>, <<";", ",", "Q", "Q", "Q", "Q">>}
    /\ ocr_env \in [fail : {"none"},
                    stdout : StringsUpTo(OutputAlphabet, MaxStdout),
                    stderr : {<<"e">>}]
    /\ ocr_out = NoOcr
    /\ InitShortcut /\ os_taken = {}
    /\ InitProxyIdle /\ net = NetDown
    /\ InitCapture
    /\ InitDepsIdle
    /\ InitCursorIdle
    /\ InitTriggerIdle /\ quick_window = TRUE

SpecOcrText == InitOcrText /\ [][NextOcr]_vars

\* check_ocr_dependencies over the outcomes of its three probes.
InitDeps ==
    /\ dep_env \in [version : ProbeOutcomes, langs : ProbeOutcomes,
                     which : {p \in ProbeOutcomes : p.stdout = <<>>}]
    /\ dep_out = NoDeps
    /\ InitShortcut /\ os_taken = {}
    /\ InitProxyIdle /\ net = NetDown
    /\ InitCapture
    /\ InitOcrIdle
    /\ InitCursorIdle
    /\ InitTriggerIdle /\ quick_window = TRUE

NextDeps == DepRun

SpecDeps == InitDeps /\ [][NextDeps]_vars
\* The cursor position over the outputs of the cursor-location command.
InitCursor ==
    /\ cur_out \in CursorOutputs
    /\ cur_pos = NoPos
    /\ InitShortcut /\ os_taken = {}
    /\ InitProxyIdle /\ net = NetDown
    /\ InitCapture
    /\ InitOcrIdle
    /\ InitDepsIdle
    /\ InitTriggerIdle /\ quick_window = TRUE

NextCursor == CurResolve

SpecCursor == InitCursor /\ [][NextCursor]_vars
\* The capture sequence under the failures of its commands: the binding
\* registered at startup, presses of it, and the calls they start.
InitTrigger ==
    /\ InitTriggerIdle
    /\ quick_window \in BOOLEAN
    /\ InitShortcut /\ os_taken = {}
    /\ InitProxyIdle /\ net = NetDown
    /\ InitCapture
    /\ InitOcrIdle
    /\ InitDepsIdle
    /\ InitCursorIdle

NextTrigger ==
    \/ SetupGlobalShortcut
    \/ \E k \in Hotkeys : HotkeyEvent(k, "Pressed")
    \/ \E t \in Triggers, launched \in BOOLEAN : TqCopy(t, launched)
    \/ \E t \in Triggers, read \in {r \in ClipboardReads : r.text # "b"} : TqRead(t, read)
    \/ \E t \in Triggers : TqWindow(t)
    \/ \E t \in Triggers, result \in LocateResults : TqLocate(t, result)
    \/ \E t \in Triggers : TqShow(t)
    \/ \E t \in Triggers : TqFocus(t)
    \/ \E t \in Triggers : TqSpawnActivate(t)
    \/ \E t \in Triggers : TqSpawnEmit(t)
    \/ \E t \in Triggers : ActRun(t)
    \/ \E t \in Triggers : EmitRun(t)

SpecTrigger == InitTrigger /\ [][NextTrigger]_vars
\* The hotkey handler: the binding registered at startup or by one
\* update_shortcut at a time, the events of the registered hotkeys, and the
\* calls they start, with every command of the sequence succeeding.
InitHotkey ==
    /\ InitTriggerIdle
    /\ quick_window = TRUE
    /\ InitShortcut /\ os_taken = {}
    /\ InitProxyIdle /\ net = NetDown
    /\ InitCapture
    /\ InitOcrIdle
    /\ InitDepsIdle
    /\ InitCursorIdle

NextHotkey ==
    \/ SetupGlobalShortcut
    \/ \E s \in ShortcutStrings : UsCall(1, s)
    \/ UsLockOld(1)
    \/ UsUnregisterOld(1)
    \/ UsUnlockOld(1)
    \/ UsParseNew(1)
    \/ UsRegisterNew(1)
    \/ UsLockNew(1)
    \/ UsCommit(1)
    \/ UsReturn(1)
    \/ \E k \in Hotkeys, st \in {"Pressed", "Released"} : HotkeyEvent(k, st)
    \/ \E t \in Triggers : TqCopy(t, TRUE)
    \/ \E t \in Triggers : TqRead(t, [state |-> "Ok", text |-> "a"])
    \/ \E t \in Triggers : TqWindow(t)
    \/ \E t \in Triggers : TqLocate(t, [launched |-> TRUE, stdout |-> UsualOutput])
    \/ \E t \in Triggers : TqShow(t)
    \/ \E t \in Triggers : TqFocus(t)
    \/ \E t \in Triggers : TqSpawnActivate(t)
    \/ \E t \in Triggers : TqSpawnEmit(t)
    \/ \E t \in Triggers : ActRun(t)
    \/ \E t \in Triggers : EmitRun(t)

SpecHotkey == InitHotkey /\ [][NextHotkey]_vars
\* The delivery of the text: presses of the startup binding and the calls
\* they start, over the results of the clipboard read, with the commands of
\* the sequence running (the cursor-location output is of no account here).
InitDelivery ==
    /\ InitTriggerIdle
    /\ quick_window \in BOOLEAN
    /\ InitShortcut /\ os_taken = {}
    /\ InitProxyIdle /\ net = NetDown
    /\ InitCapture
    /\ InitOcrIdle
    /\ InitDepsIdle
    /\ InitCursorIdle

NextDelivery ==
    \/ SetupGlobalShortcut
    \/ \E k \in Hotkeys : HotkeyEvent(k, "Pressed")
    \/ \E t \in Triggers : TqCopy(t, TRUE)
    \/ \E t \in Triggers, read \in ClipboardReads : TqRead(t, read)
    \/ \E t \in Triggers : TqWindow(t)
    \/ \E t \in Triggers : TqLocate(t, [launched |-> TRUE, stdout |-> BadOutput])
    \/ \E t \in Triggers : TqShow(t)
    \/ \E t \in Triggers : TqFocus(t)
    \/ \E t \in Triggers : TqSpawnActivate(t)
    \/ \E t \in Triggers : TqSpawnEmit(t)
    \/ \E t \in Triggers : ActRun(t)
    \/ \E t \in Triggers : EmitRun(t)

SpecDelivery == InitDelivery /\ [][NextDelivery]_vars
\* The next step of a call, whichever it is: the calling thread runs one
\* step at a time.
TqStep(t) ==
    \/ TqCopy(t, TRUE)
    \/ \E read \in ClipboardReads : TqRead(t, read)
    \/ TqWindow(t)
    \/ TqLocate(t, [launched |-> TRUE, stdout |-> BadOutput])
    \/ TqShow(t)
    \/ TqFocus(t)
    \/ TqSpawnActivate(t)
    \/ TqSpawnEmit(t)

\* The same, with the commands of a call returning and its delivery thread
\* scheduled: a step that can be taken is taken.
FairDelivery ==
    \A t \in Triggers : WF_vars(TqStep(t)) /\ WF_vars(EmitRun(t))

SpecDeliveryFair == InitDelivery /\ [][NextDelivery]_vars /\ FairDelivery

\* update_shortcut called again and again, one call at a time, over the
\* hotkeys other applications hold.
InitUpdate ==
    /\ InitShortcut
    /\ os_taken \in SUBSET Hotkeys
    /\ InitProxyIdle /\ net = NetDown
    /\ InitCapture
    /\ InitOcrIdle
    /\ InitDepsIdle
    /\ InitCursorIdle
    /\ InitTriggerIdle /\ quick_window = TRUE

NextUpdate ==
    \/ SetupGlobalShortcut
    \/ \E s \in ShortcutStrings : UsCall(1, s)
    \/ UsLockOld(1)
    \/ UsUnregisterOld(1)
    \/ UsUnlockOld(1)
    \/ UsParseNew(1)
    \/ UsRegisterNew(1)
    \/ UsLockNew(1)
    \/ UsCommit(1)
    \/ UsReturn(1)

SpecUpdate == InitUpdate /\ [][NextUpdate]_vars

\* The commands that use the two locks, called at any time: two
\* update_shortcut invocations and one proxy_request, each from its call to
\* its result, set_proxy again and again, and a press of the registered
\* hotkey (the sequence it starts touches neither lock and is followed in
\* SpecTrigger and SpecDelivery).
InitLocks ==
    /\ InitShortcut /\ os_taken = {}
    /\ InitProxyIdle /\ net = NetDown
    /\ InitCapture
    /\ InitOcrIdle
    /\ InitDepsIdle
    /\ InitCursorIdle
    /\ InitTriggerIdle /\ quick_window = TRUE

\* The setting set_proxy is called with: one whose proxy cannot be built,
\* so that proxy_request leaves its block by the error return.
LockConfigs == { c \in ProxyConfigs : c.enabled /\ c.protocol = "ftp" }

\* A step of update_shortcut invocation p between its call and its result.
UsStep(p) ==
    \/ UsLockOld(p)
    \/ UsUnregisterOld(p)
    \/ UsUnlockOld(p)
    \/ UsParseNew(p)
    \/ UsRegisterNew(p)
    \/ UsLockNew(p)
    \/ UsCommit(p)

\* A step of proxy_request invocation r between its call and its result.
PrStep(r) ==
    \/ PrLock(r)
    \/ PrBuild(r)
    \/ PrSend(r)
    \/ PrComplete(r)

\* A step of set_proxy after its call.
SpStep == SpLock \/ SpWrite

NextLocks ==
    \/ SetupGlobalShortcut
    \/ \E p \in {1, 2}, s \in {"Alt+T", "Ctrl+NoSuchKey"} : UsCall(p, s)
    \/ \E p \in {1, 2} : UsStep(p)
    \/ PrCall(1, None)
    \/ PrStep(1)
    \/ \E c \in LockConfigs : SpCall(c)
    \/ SpStep
    \/ \E k \in Hotkeys : triggers = 0 /\ HotkeyEvent(k, "Pressed")

\* The same with every thread scheduled and every lock handed to each of its
\* waiters at some release: a command whose step can be taken again and again
\* takes it.
FairLocks ==
    /\ \A p \in {1, 2} : SF_vars(UsStep(p))
    /\ SF_vars(PrStep(1))
    /\ SF_vars(SpStep)

SpecLocksFair == InitLocks /\ [][NextLocks]_vars /\ FairLocks

=============================================================================
